---- MODULE Spec2Model ----
(***************************************************************************)
(* Population orchestration and cross-sectional statistics of the DemARK   *)
(* notebooks:                                                              *)
(*   src/notebooks/IncExpectationExample.ipynb  (runRoszypalSchlaffman-    *)
(*       Experiment: perceived/actual persistence experiment)              *)
(*   src/unnamed/part_000  (very-impatient-households notebook: MyTypes    *)
(*       builder, solve/simulate loop, pooled statistics)                  *)
(*                                                                         *)
(* Numbers.  Correlations and discount factors are fixed-point integers in *)
(* units of 1/10000; a discount factor of the discretized list is kept *)
(* in units of 1/(10000*NumTypes) so that the midpoint formula stays       *)
(* exact.  Percentiles and shares are exact rationals <<num, den>>.        *)
(*                                                                         *)
(* External collaborators.  solve(), initializeSim() and simulate() are    *)
(* HARK library methods.  They are modelled as deterministic functions of  *)
(* the attributes they read, in their free interpretation: the value       *)
(* returned is the tuple of the inputs it was computed from, so that two   *)
(* results are equal exactly when every deterministic implementation       *)
(* would be forced to return equal results.                                *)
(***************************************************************************)
EXTENDS Integers, Sequences, FiniteSets, TLC

(* ----------------------------- bounds --------------------------------- *)
\* Number of discretized types; the notebooks use 7 (approx(N=7), num_types = 7).
NumTypes == 3
\* Agents per type; the notebooks use AgentCount 10000.
AgentCount == 2

\* Largest number of types in a list of simulated panels handed to the statistics.
MaxPanels == 3
\* The percentile grid is np.linspace(1/GridEpsDen, 1 - 1/GridEpsDen, GridCount);
\* the experiment uses np.linspace(0.001, 0.999, 201) on 70000 pooled agents.
\* The grid is scaled with the population: as in the source, its end gap
\* 1/GridEpsDen is smaller than its interior step and the pooled population
\* can reach GridEpsDen agents.
GridEpsDen == 5
GridCount == 3
\* Largest sample handed to a statistic called on its own.
MaxSample == 3
\* Largest number of bins asked of the discretizer called on its own.
MaxBins == 3
\* Largest number of periods in a cycle (T_cycle) getControls is run with.
MaxCycle == 2

(* ------------------------- program constants -------------------------- *)
\* (Correlations and discount factors are in units of 1/10000: 0.97 is 9700.)
\* BaselineDict["PrstIncCorr"] = 0.99
BasePrstIncCorr == 9900
\* BaselineDict["DiscFac"] = 0.97
BaseDiscFac == 9700
\* BaselineDict["T_sim"] = 1200
BaseTsim == 1200
\* ThisType.T_sim = 100
ExperimentTsim == 100
\* Seed of an AgentType constructed without a seed argument: the constructor's
\* default, the same for every instance.
DefaultSeed == 0

\* Very-impatient-households notebook, in units of 1/10000000:
\* cstwMPC_calibrated_parameters["DiscFac"] = 0.97
CstwDiscFac == 9700000
\* DiscFac_mean = 0.9855583
DiscFac_mean == 9855583
\* DiscFac_spread = 0.0085
DiscFac_spread == 85000
\* cstwMPC_calibrated_parameters['T_sim'] = 1200
CstwTsim == 1200
\* NewTypes[0].DiscFac = 0.8
VeryImpatientDiscFac == 8000000

(* ------------------------------ inputs -------------------------------- *)
\* Arguments of runRoszypalSchlaffmanExperiment that the runs are checked on;
\* the recorded call is (0.97, 0.9831, 0.9867, 0.0067).
CorrActSet == {9700, 9900}
CorrPcvdSet == {9700, 9831}
DiscFacCenterSet == {9867}
DiscFacSpreadSet == {-67, 0, 67}

VARIABLES
    prog,           \* which notebook runs: "experiment" or "impatient"
    pc,             \* position in the running cell / function
    run,            \* 1 for the first execution, 2 for the repeated one
    args,           \* arguments of runRoszypalSchlaffmanExperiment
    BaselineDict,   \* module-level dictionary of the experiment notebook
    BaselineType,   \* template type of the very-impatient-households notebook
    ThisDict,       \* local dictionary of the experiment
    DiscFac_list,   \* discretized discount factors
    i,              \* loop index (1-based; Python's i is i-1)
    ThisType,       \* the type under construction / simulation
    type_list,      \* experiment: types appended so far; impatient: MyTypes
    pooled,         \* pooled arrays built by np.concatenate
    prev,           \* panels and pooled arrays of the first execution
    wpc,            \* concurrent execution: position of each worker
    wType,          \* concurrent execution: each worker's local ThisType
    arrival,        \* concurrent execution: workers in the order they appended
    result,         \* statistics computed from the pooled arrays
    NewTypes,       \* deep copy of MyTypes with the very impatient type
    nonconvergent   \* discount factors the external solver cannot solve for

parVars == <<wpc, wType, arrival>>

vars == <<prog, pc, run, args, BaselineDict, BaselineType, ThisDict, DiscFac_list, i,
          ThisType, type_list, pooled, prev, parVars, result, NewTypes, nonconvergent>>

(* ------------------------- object identities -------------------------- *)
\* Python names are bound to objects.  An object is identified by the
\* statement that created it and the iteration it was created in; objects
\* alive at the same time have different identities.
Obj(site, k) == [site |-> site, index |-> k]

\* No object.
NoObject == Obj("none", 0)

\* The list object that was created together with object o: by the literal
\* that built o, or by the deep copy that produced o.
ListOf(o) == [owner |-> o]

\* What the name bound to x shows after the object `written` was updated: the
\* update, when x is that very object.
SeenThrough(x, written) == IF x.id = written.id THEN written ELSE x

(* ------------------------ agent type objects -------------------------- *)
EmptyPanel == [cLvlNow |-> << >>, aLvlNow |-> << >>, MPCnow |-> << >>, pLvlNow |-> << >>]

NoRNG == [seed |-> -1, pos |-> -1]

\* Placeholder for "no object bound to the name yet".
\* (LivPrb is the list object bound to the parameter of that name; calls is
\* the sequence of solve, initializeSim and simulate invocations on the object.)
NoType == [id |-> NoObject, DiscFac |-> -1, PrstIncCorr |-> -1, pLvlNextFunc |-> -1,
           seed |-> -1, T_sim |-> -1, AgentCount |-> -1, LivPrb |-> ListOf(NoObject),
           solution |-> << >>, RNG |-> NoRNG, t_sim |-> -1, panel |-> EmptyPanel,
           calls |-> << >>]

NoDict == [id |-> NoObject, DiscFac |-> -1, PrstIncCorr |-> -1, T_sim |-> -1,
           AgentCount |-> -1, LivPrb |-> ListOf(NoObject)]

NoPooled == [cLvl_all |-> << >>, aLvl_all |-> << >>, MPC_all |-> << >>, pLvl_all |-> << >>]

\* Non-finite float (NaN or inf): a ratio with denominator 0.
NaN == <<0, 0>>

NoResult == [AggWealthRatio |-> NaN, wealth_percentile |-> << >>, Lorenz_init |-> << >>,
             Lorenz |-> << >>, Gini |-> NaN, Avg_MPC |-> << >>, printed |-> -1,
             error |-> "none"]

\* The dictionary of calibrated parameters (the fields the orchestration reads).
\* "LivPrb" : [1.0 - 1.0/160.0] binds the key to a list object made by the
\* dictionary literal.
InitBaselineDict ==
    [id |-> Obj("BaselineDict", 0), DiscFac |-> BaseDiscFac * NumTypes,
     PrstIncCorr |-> BasePrstIncCorr, T_sim |-> BaseTsim, AgentCount |-> AgentCount,
     LivPrb |-> ListOf(Obj("BaselineDict", 0))]

(* --------------------- Distribution discretizer ------------------------ *)
\* Uniform(bot, top).approx(N).X with bot = center - spread, top = center + spread:
\* the midpoints of N equiprobable bins, X[k] = center + spread*(2k+1-N)/N for
\* k = 0..N-1, here in units of 1/(10000*N).
\* Variant: the left edges of the N bins instead of their midpoints.
UniformApproxLeftEdges(center, spread, N) ==
    [k \in 1..N |-> N * center + spread * (2 * (k - 1) - N)]

UniformApprox(center, spread, N) ==
    [k \in 1..N |-> N * center + spread * (2 * (k - 1) + 1 - N)]

\* Uniform(bot, top).approx(N).pmf: N equal weights 1/N.
UniformApproxPmf(N) == [k \in 1..N |-> <<1, N>>]

\* Uniform(bot, top).approx(N): the values, their weights, and the error the
\* discretizer rejects a count N <= 0 or a spread < 0 with.
Discretizer(center, spread, N) ==
    IF N <= 0 \/ spread < 0
    THEN [X |-> << >>, pmf |-> << >>, error |-> "InvalidDistributionError"]
    ELSE [X |-> UniformApprox(center, spread, N), pmf |-> UniformApproxPmf(N),
          error |-> "none"]

\* Variant: an error raised by the discretizer is swallowed and the loop entered.
AfterApproxSwallowed(error) == "loop"

\* Where the experiment continues after line 180: an exception raised there
\* is not caught and ends the call.
AfterApprox(error) == IF error = "none" THEN "loop" ELSE "raised"

(* ------------------ steps of the experiment's loop body ---------------- *)
\* Variant: no copy is made, the name is bound to the dictionary itself.
CopyDictAliased(d, o) == d

\* copy(d): a new dictionary object o whose keys are bound to the same value
\* objects as the keys of d (a shallow copy).
CopyDict(d, o) == [d EXCEPT !.id = o]

\* ThisDict['PrstIncCorr'] = CorrAct
DictWithCorr(d, CorrAct) == [d EXCEPT !.PrstIncCorr = CorrAct]

\* Seed of a freshly constructed type: the experiment passes no seed, so the
\* k-th constructed type gets the constructor's default.
ConstructedSeed(k) == DefaultSeed

\* PersistentShockConsumerTypeX(**ThisDict): attributes from the dictionary, the
\* default seed, and the derived next-period income function built from the
\* PrstIncCorr the type was constructed with.
\* The keyword arguments hand the dictionary's value objects themselves to
\* the new object.
Construct(d, k) ==
    [id |-> Obj("ThisType", k), DiscFac |-> d.DiscFac, PrstIncCorr |-> d.PrstIncCorr,
     pLvlNextFunc |-> d.PrstIncCorr, seed |-> ConstructedSeed(k),
     T_sim |-> d.T_sim, AgentCount |-> d.AgentCount, LivPrb |-> d.LivPrb,
     solution |-> << >>, RNG |-> [seed |-> ConstructedSeed(k), pos |-> 0], t_sim |-> 0,
     panel |-> EmptyPanel, calls |-> << >>]

\* Variant: the perceived value is taken from the baseline dictionary instead
\* of the argument.
PerceivedValueFromBaseline(base, CorrAct, CorrPcvd) == base.PrstIncCorr

\* The value written by "ThisType.PrstIncCorr = CorrPcvd".
PerceivedValue(base, CorrAct, CorrPcvd) == CorrPcvd

\* Variant: the actual value is never restored (the perceived one is written
\* again).
ActualValueNotRestored(base, CorrAct, CorrPcvd) == CorrPcvd

\* The value written by "ThisType.PrstIncCorr = CorrAct".
ActualValue(base, CorrAct, CorrPcvd) == CorrAct

\* Variant: the derived function is not rebuilt.
UpdatepLvlNextFuncSkipped(t) == t

\* ThisType.updatepLvlNextFunc(): rebuild the derived function from PrstIncCorr.
UpdatepLvlNextFunc(t) == [t EXCEPT !.pLvlNextFunc = t.PrstIncCorr]

\* ThisType.solve(): the policy, a deterministic function of the configuration
\* in effect (discount factor and the income process the type believes in).
Solve(t) ==
    [t EXCEPT !.solution = << [DiscFac |-> t.DiscFac, pLvlNextFunc |-> t.pLvlNextFunc] >>,
              !.calls = Append(@, "solve")]

\* The error solve() ends with on configuration t: the external solver
\* produces no policy for the discount factors in nonconvergent.
SolveError(t) == IF t.DiscFac \in nonconvergent THEN "NonConvergenceError" ELSE "none"

\* The object after a solve() that raised: invoked, no policy stored.
SolveRaised(t) == [t EXCEPT !.calls = Append(@, "solve")]

\* ThisType.solve(), returning or raising.
TrySolve(t) == IF SolveError(t) = "none" THEN Solve(t) ELSE SolveRaised(t)

\* Variant: a solve() that raised is invoked again.
AfterSolveRetried(error, here, next) == IF error = "none" THEN next ELSE here

\* Variant: an error raised by solve() is swallowed and the cycle goes on.
AfterSolveSwallowed(error, here, next) == next

\* Where the loop body continues after the solve() statement at `here`: no
\* handler surrounds it, so an exception ends the function (or the cell).
AfterSolve(error, here, next) == IF error = "none" THEN next ELSE "raised"

\* The outcome after a statement that may have raised.
Raise(r, error) == IF error = "none" THEN r ELSE [r EXCEPT !.error = error]

\* ThisType.initializeSim(): restart the simulation; the type's own random
\* stream is re-created from its seed and the clock is set to zero.
InitializeSim(t) ==
    [t EXCEPT !.RNG = [seed |-> t.seed, pos |-> 0], !.t_sim = 0, !.panel = EmptyPanel,
              !.calls = Append(@, "initializeSim")]

\* One simulated agent's terminal value of variable v: determined by the policy,
\* the actual configuration, the random stream (seed and position), the
\* horizon and the agent's index.
SimValue(t, v, k) ==
    [var |-> v, agent |-> k, policy |-> t.solution, DiscFac |-> t.DiscFac,
     pLvlNextFunc |-> t.pLvlNextFunc, seed |-> t.RNG.seed, pos |-> t.RNG.pos,
     t0 |-> t.t_sim, T_sim |-> t.T_sim]

SimArray(t, v) == [k \in 1..t.AgentCount |-> SimValue(t, v, k)]

\* ThisType.simulate(): T_sim periods from the current state; the terminal
\* arrays have one entry per agent.
Simulate(t) ==
    [t EXCEPT !.panel = [cLvlNow |-> SimArray(t, "cLvlNow"),
                         aLvlNow |-> SimArray(t, "aLvlNow"),
                         MPCnow  |-> SimArray(t, "MPCnow"),
                         pLvlNow |-> SimArray(t, "pLvlNow")],
              !.RNG = [seed |-> t.RNG.seed, pos |-> t.RNG.pos + t.T_sim],
              !.t_sim = t.t_sim + t.T_sim,
              !.calls = Append(@, "simulate")]

\* Variant: simulate() is invoked ahead of initializeSim().
SimulateBeforeInitializeSim(t) == InitializeSim(Simulate(t))

\* Variant: the statement "ThisType.initializeSim()" is left out.
InitializeSimOmitted(t) == t

\* The statement "ThisType.initializeSim()" of the loop bodies.
CallInitializeSim(t) == InitializeSim(t)

(* ------------------------------ pooling -------------------------------- *)
RECURSIVE ConcatenateReversed(_)
\* Variant: the arrays are joined last to first.
ConcatenateReversed(arrays) ==
    IF arrays = << >> THEN << >>
    ELSE ConcatenateReversed(Tail(arrays)) \o Head(arrays)

\* Variant: every array is cut to the length of the shortest one before joining.
ConcatenateTruncated(arrays) ==
    LET RECURSIVE MinLen(_)
        MinLen(as) == IF Len(as) = 1 THEN Len(as[1])
                      ELSE LET m == MinLen(Tail(as))
                           IN  IF Len(as[1]) < m THEN Len(as[1]) ELSE m
        RECURSIVE Join(_, _)
        Join(as, m) == IF as = << >> THEN << >>
                       ELSE SubSeq(Head(as), 1, m) \o Join(Tail(as), m)
    IN  IF arrays = << >> THEN << >> ELSE Join(arrays, MinLen(arrays))

RECURSIVE Concatenate(_)
\* np.concatenate(list of arrays): the arrays one after the other, in list order.
Concatenate(arrays) ==
    IF arrays = << >> THEN << >>
    ELSE Head(arrays) \o Concatenate(Tail(arrays))

\* The error of np.concatenate on an empty list of arrays (ValueError: need
\* at least one array to concatenate): the aggregator's failure on an empty
\* population.
EmptyPopulationError == "ValueError"

\* Variant: an empty list of arrays is joined into an empty array.
ConcatenateErrorNone(arrays) == "none"

\* The error np.concatenate(arrays) ends with.
ConcatenateError(arrays) == IF arrays = << >> THEN EmptyPopulationError ELSE "none"

\* [ThisType.X for ThisType in types]
Column(types, v) == [k \in 1..Len(types) |-> types[k].panel[v]]

\* Variant: MPC_all is gathered from the types in reverse order.
PoolMisaligned(types) ==
    LET reversed == [k \in 1..Len(types) |-> types[Len(types) + 1 - k]]
    IN  [cLvl_all |-> Concatenate(Column(types, "cLvlNow")),
         aLvl_all |-> Concatenate(Column(types, "aLvlNow")),
         MPC_all  |-> Concatenate(Column(reversed, "MPCnow")),
         pLvl_all |-> Concatenate(Column(types, "pLvlNow"))]

\* The four pooled arrays of the experiment.
Pool(types) ==
    [cLvl_all |-> Concatenate(Column(types, "cLvlNow")),
     aLvl_all |-> Concatenate(Column(types, "aLvlNow")),
     MPC_all  |-> Concatenate(Column(types, "MPCnow")),
     pLvl_all |-> Concatenate(Column(types, "pLvlNow"))]

Panels(types) == [k \in 1..Len(types) |-> types[k].panel]

(* ------------- runRoszypalSchlaffmanExperiment, step by step ----------- *)
InExperiment(at) == prog = "experiment" /\ pc = at

\* ThisDict = copy(BaselineDict); ThisDict['PrstIncCorr'] = CorrAct
MakeThisDict ==
    /\ InExperiment("copy")
    /\ ThisDict' = DictWithCorr(CopyDict(BaselineDict, Obj("ThisDict", 0)), args.CorrAct)
    /\ BaselineDict' = SeenThrough(BaselineDict, ThisDict')
    /\ pc' = "approx"
    /\ UNCHANGED <<prog, run, args, BaselineType, DiscFac_list, i, ThisType,
                   type_list, pooled, prev, parVars, result,
                   NewTypes, nonconvergent>>

\* DiscFac_list = Uniform(...).approx(N=7).X; type_list = []
Discretize ==
    /\ InExperiment("approx")
    /\ LET d == Discretizer(args.DiscFac_center, args.DiscFac_spread, NumTypes)
       IN  /\ DiscFac_list' = d.X
           /\ result' = [result EXCEPT !.error = d.error]
           /\ pc' = AfterApprox(d.error)
    /\ type_list' = << >>
    /\ i' = 1
    /\ UNCHANGED <<prog, run, args, BaselineDict, BaselineType, ThisDict, ThisType, pooled, prev, parVars,
                   NewTypes, nonconvergent>>

\* for i in range(len(DiscFac_list)): next iteration or leave the loop
LoopTest ==
    /\ InExperiment("loop")
    /\ pc' = IF i <= Len(DiscFac_list) THEN "construct" ELSE "pool"
    /\ UNCHANGED <<prog, run, args, BaselineDict, BaselineType, ThisDict, DiscFac_list, i,
                   ThisType, type_list, pooled, prev, parVars, result,
                   NewTypes, nonconvergent>>

\* ThisDict['DiscFac'] = DiscFac_list[i]; ThisType = PersistentShockConsumerTypeX(**ThisDict)
ConstructType ==
    /\ InExperiment("construct")
    /\ ThisDict' = [ThisDict EXCEPT !.DiscFac = DiscFac_list[i]]
    /\ BaselineDict' = SeenThrough(BaselineDict, ThisDict')
    /\ ThisType' = Construct(ThisDict', i)
    /\ pc' = "setPcvd"
    /\ UNCHANGED <<prog, run, args, BaselineType, DiscFac_list, i, type_list,
                   pooled, prev, parVars, result,
                   NewTypes, nonconvergent>>

\* ThisType.PrstIncCorr = CorrPcvd
SetPerceived ==
    /\ InExperiment("setPcvd")
    /\ ThisType' = [ThisType EXCEPT !.PrstIncCorr =
                        PerceivedValue(BaselineDict, args.CorrAct, args.CorrPcvd)]
    /\ pc' = "updPcvd"
    /\ UNCHANGED <<prog, run, args, BaselineDict, BaselineType, ThisDict, DiscFac_list, i,
                   type_list, pooled, prev, parVars, result,
                   NewTypes, nonconvergent>>

\* ThisType.updatepLvlNextFunc()
UpdatePerceived ==
    /\ InExperiment("updPcvd")
    /\ ThisType' = UpdatepLvlNextFunc(ThisType)
    /\ pc' = "solve"
    /\ UNCHANGED <<prog, run, args, BaselineDict, BaselineType, ThisDict, DiscFac_list, i,
                   type_list, pooled, prev, parVars, result,
                   NewTypes, nonconvergent>>

\* ThisType.solve()
SolveType ==
    /\ InExperiment("solve")
    /\ ThisType' = TrySolve(ThisType)
    /\ result' = Raise(result, SolveError(ThisType))
    /\ pc' = AfterSolve(SolveError(ThisType), "solve", "setAct")
    /\ UNCHANGED <<prog, run, args, BaselineDict, BaselineType, ThisDict, DiscFac_list, i,
                   type_list, pooled, prev, parVars, NewTypes, nonconvergent>>

\* ThisType.PrstIncCorr = CorrAct
SetActual ==
    /\ InExperiment("setAct")
    /\ ThisType' = [ThisType EXCEPT !.PrstIncCorr =
                        ActualValue(BaselineDict, args.CorrAct, args.CorrPcvd)]
    /\ pc' = "updAct"
    /\ UNCHANGED <<prog, run, args, BaselineDict, BaselineType, ThisDict, DiscFac_list, i,
                   type_list, pooled, prev, parVars, result,
                   NewTypes, nonconvergent>>

\* ThisType.updatepLvlNextFunc()
UpdateActual ==
    /\ InExperiment("updAct")
    /\ ThisType' = UpdatepLvlNextFunc(ThisType)
    /\ pc' = "setTsim"
    /\ UNCHANGED <<prog, run, args, BaselineDict, BaselineType, ThisDict, DiscFac_list, i,
                   type_list, pooled, prev, parVars, result,
                   NewTypes, nonconvergent>>

\* ThisType.T_sim = 100
SetTsim ==
    /\ InExperiment("setTsim")
    /\ ThisType' = [ThisType EXCEPT !.T_sim = ExperimentTsim]
    /\ pc' = "initSim"
    /\ UNCHANGED <<prog, run, args, BaselineDict, BaselineType, ThisDict, DiscFac_list, i,
                   type_list, pooled, prev, parVars, result,
                   NewTypes, nonconvergent>>

\* ThisType.initializeSim()
InitSimType ==
    /\ InExperiment("initSim")
    /\ ThisType' = CallInitializeSim(ThisType)
    /\ pc' = "simulate"
    /\ UNCHANGED <<prog, run, args, BaselineDict, BaselineType, ThisDict, DiscFac_list, i,
                   type_list, pooled, prev, parVars, result,
                   NewTypes, nonconvergent>>

\* ThisType.simulate()
SimulateType ==
    /\ InExperiment("simulate")
    /\ ThisType' = Simulate(ThisType)
    /\ pc' = "append"
    /\ UNCHANGED <<prog, run, args, BaselineDict, BaselineType, ThisDict, DiscFac_list, i,
                   type_list, pooled, prev, parVars, result,
                   NewTypes, nonconvergent>>

\* type_list.append(ThisType); the loop index advances
AppendType ==
    /\ InExperiment("append")
    /\ type_list' = Append(type_list, ThisType)
    /\ i' = i + 1
    /\ pc' = "loop"
    /\ UNCHANGED <<prog, run, args, BaselineDict, BaselineType, ThisDict, DiscFac_list,
                   ThisType, pooled, prev, parVars, result,
                   NewTypes, nonconvergent>>

\* cLvl_all, aLvl_all, MPC_all, pLvl_all = np.concatenate([... for ThisType in type_list]);
\* the statistics returned are functions of these arrays (see the statistics
\* section), so the function's result is recorded as the pooled arrays.
PoolExperiment ==
    /\ InExperiment("pool")
    /\ pooled' = Pool(type_list)
    /\ pc' = "done"
    /\ UNCHANGED <<prog, run, args, BaselineDict, BaselineType, ThisDict, DiscFac_list, i,
                   ThisType, type_list, prev, parVars, result,
                   NewTypes, nonconvergent>>

\* The same call once more, with the same arguments: the function's locals are
\* new, the module-level BaselineDict is whatever the first call left.
CallAgain ==
    /\ InExperiment("done")
    /\ run = 1
    /\ run' = 2
    /\ prev' = [panels |-> Panels(type_list), pooled |-> pooled]
    /\ ThisDict' = NoDict
    /\ DiscFac_list' = << >>
    /\ i' = 0
    /\ ThisType' = NoType
    /\ type_list' = << >>
    /\ pooled' = NoPooled
    /\ pc' = "copy"
    /\ UNCHANGED <<prog, args, BaselineDict, BaselineType, parVars, result,
                   NewTypes, nonconvergent>>

\* What the external solver may fail on: any of the discount factors X it
\* is going to be called with.
SolverFailures(X) == SUBSET { X[k] : k \in DOMAIN X }

InitExperiment ==
    /\ prog = "experiment"
    /\ pc = "copy"
    /\ run = 1
    /\ args \in [CorrAct : CorrActSet, CorrPcvd : CorrPcvdSet,
                 DiscFac_center : DiscFacCenterSet, DiscFac_spread : DiscFacSpreadSet]
    /\ BaselineDict = InitBaselineDict
    /\ BaselineType = NoType
    /\ ThisDict = NoDict
    /\ DiscFac_list = << >>
    /\ i = 0
    /\ ThisType = NoType
    /\ type_list = << >>
    /\ pooled = NoPooled
    /\ prev = [panels |-> << >>, pooled |-> NoPooled]
    /\ wpc = << >>
    /\ wType = << >>
    /\ arrival = << >>
    /\ NewTypes = << >>
    /\ nonconvergent \in SolverFailures(
           Discretizer(args.DiscFac_center, args.DiscFac_spread, NumTypes).X)
    /\ result = NoResult

(* --------- very-impatient-households notebook, cell by cell ------------ *)
InImpatient(at) == prog = "impatient" /\ pc = at

\* IndShockConsumerType(verbose=0, **cstwMPC_calibrated_parameters): no seed is
\* passed and the type has no PrstIncCorr.
MakeBaselineType ==
    [id |-> Obj("BaselineType", 0), DiscFac |-> CstwDiscFac * NumTypes,
     PrstIncCorr |-> -1, pLvlNextFunc |-> -1,
     seed |-> DefaultSeed, T_sim |-> CstwTsim, AgentCount |-> AgentCount,
     LivPrb |-> ListOf(Obj("cstwMPC_calibrated_parameters", 0)),
     solution |-> << >>, RNG |-> [seed |-> DefaultSeed, pos |-> 0], t_sim |-> 0,
     panel |-> EmptyPanel, calls |-> << >>]

\* Variant: no copy is made, the name is bound to the object itself.
DeepCopyAliased(x, o) == x

\* deepcopy(x): a new object o equal to x attribute by attribute, every
\* mutable attribute a new object as well.
DeepCopy(x, o) == [x EXCEPT !.id = o, !.LivPrb = ListOf(o)]

\* NewType.seed = nn (nn is Python's 0-based index).
BuilderSeed(nn) == nn

\* for nn in range(num_types): next type or end of the cell
BuildTest ==
    /\ InImpatient("build")
    /\ pc' = IF i <= NumTypes THEN "deepcopy" ELSE "cycle"
    /\ i' = IF i <= NumTypes THEN i ELSE 1
    /\ UNCHANGED <<prog, run, args, BaselineDict, BaselineType, ThisDict,
                   DiscFac_list, ThisType, type_list, pooled, prev, parVars, result,
                   NewTypes, nonconvergent>>

\* NewType = deepcopy(BaselineType)
CopyBaseline ==
    /\ InImpatient("deepcopy")
    /\ ThisType' = DeepCopy(BaselineType, Obj("NewType", i))
    /\ pc' = "setDiscFac"
    /\ UNCHANGED <<prog, run, args, BaselineDict, BaselineType, ThisDict,
                   DiscFac_list, i, type_list, pooled, prev, parVars, result,
                   NewTypes, nonconvergent>>

\* NewType.DiscFac = DiscFac_dstn[nn]
SetDiscFac ==
    /\ InImpatient("setDiscFac")
    /\ ThisType' = [ThisType EXCEPT !.DiscFac = DiscFac_list[i]]
    /\ BaselineType' = SeenThrough(BaselineType, ThisType')
    /\ pc' = "setSeed"
    /\ UNCHANGED <<prog, run, args, BaselineDict, ThisDict,
                   DiscFac_list, i, type_list, pooled, prev, parVars, result,
                   NewTypes, nonconvergent>>

\* NewType.seed = nn
SetSeed ==
    /\ InImpatient("setSeed")
    /\ ThisType' = [ThisType EXCEPT !.seed = BuilderSeed(i - 1)]
    /\ BaselineType' = SeenThrough(BaselineType, ThisType')
    /\ pc' = "appendNew"
    /\ UNCHANGED <<prog, run, args, BaselineDict, ThisDict,
                   DiscFac_list, i, type_list, pooled, prev, parVars, result,
                   NewTypes, nonconvergent>>

\* MyTypes.append(NewType)
AppendNewType ==
    /\ InImpatient("appendNew")
    /\ type_list' = Append(type_list, ThisType)
    /\ i' = i + 1
    /\ pc' = "build"
    /\ UNCHANGED <<prog, run, args, BaselineDict, BaselineType, ThisDict,
                   DiscFac_list, ThisType, pooled, prev, parVars, result,
                   NewTypes, nonconvergent>>

\* for ThisType in tqdm(MyTypes): next type or end of the cell
CycleTest ==
    /\ InImpatient("cycle")
    /\ pc' = IF i <= Len(type_list) THEN "solveB" ELSE "poolB"
    /\ UNCHANGED <<prog, run, args, BaselineDict, BaselineType, ThisDict,
                   DiscFac_list, i, ThisType, type_list, pooled, prev, parVars, result,
                   NewTypes, nonconvergent>>

\* ThisType.solve(), on the i-th object of MyTypes
SolveBaseline ==
    /\ InImpatient("solveB")
    /\ type_list' = [type_list EXCEPT ![i] = TrySolve(@)]
    /\ result' = Raise(result, SolveError(type_list[i]))
    /\ pc' = AfterSolve(SolveError(type_list[i]), "solveB", "initSimB")
    /\ UNCHANGED <<prog, run, args, BaselineDict, BaselineType, ThisDict,
                   DiscFac_list, i, ThisType, pooled, prev, parVars, NewTypes, nonconvergent>>

\* ThisType.initializeSim()
InitSimBaseline ==
    /\ InImpatient("initSimB")
    /\ type_list' = [type_list EXCEPT ![i] = CallInitializeSim(@)]
    /\ pc' = "simulateB"
    /\ UNCHANGED <<prog, run, args, BaselineDict, BaselineType, ThisDict,
                   DiscFac_list, i, ThisType, pooled, prev, parVars, result,
                   NewTypes, nonconvergent>>

\* ThisType.simulate()
SimulateBaseline ==
    /\ InImpatient("simulateB")
    /\ type_list' = [type_list EXCEPT ![i] = Simulate(@)]
    /\ i' = i + 1
    /\ pc' = "cycle"
    /\ UNCHANGED <<prog, run, args, BaselineDict, BaselineType, ThisDict,
                   DiscFac_list, ThisType, pooled, prev, parVars, result,
                   NewTypes, nonconvergent>>

\* aLvl_all / sim_wealth / MPC_sim = np.concatenate([... for ThisType in MyTypes])
PoolBaseline ==
    /\ InImpatient("poolB")
    /\ pooled' = [NoPooled EXCEPT !.aLvl_all = Pool(type_list).aLvl_all,
                                  !.MPC_all = Pool(type_list).MPC_all]
    /\ pc' = "done"
    /\ UNCHANGED <<prog, run, args, BaselineDict, BaselineType, ThisDict,
                   DiscFac_list, i, ThisType, type_list, prev, parVars, result,
                   NewTypes, nonconvergent>>

\* The solve/simulate cell and the pooling cells executed once more on the
\* same MyTypes objects.
RunCellsAgain ==
    /\ InImpatient("done")
    /\ run = 1
    /\ run' = 2
    /\ prev' = [panels |-> Panels(type_list), pooled |-> pooled]
    /\ pooled' = NoPooled
    /\ i' = 1
    /\ pc' = "cycle"
    /\ UNCHANGED <<prog, args, BaselineDict, BaselineType, ThisDict,
                   DiscFac_list, ThisType, type_list, parVars, result,
                   NewTypes, nonconvergent>>

\* deepcopy(MyTypes): a new list of new objects, one per element.
DeepCopyList(types) == [k \in 1..Len(types) |-> DeepCopy(types[k], Obj("NewTypes", k))]

\* What a list shows after the object `written` was updated.
SeenThroughAll(types, written) ==
    [k \in 1..Len(types) |-> SeenThrough(types[k], written)]

\* NewTypes = deepcopy(MyTypes)
CopyMyTypes ==
    /\ InImpatient("done")
    /\ NewTypes' = DeepCopyList(type_list)
    /\ pc' = "setImpatient"
    /\ UNCHANGED <<prog, run, args, BaselineDict, BaselineType, ThisDict, DiscFac_list,
                   i, ThisType, type_list, pooled, prev, parVars, result, nonconvergent>>

\* NewTypes[0].DiscFac = 0.8
SetImpatient ==
    /\ InImpatient("setImpatient")
    /\ NewTypes' = [NewTypes EXCEPT ![1].DiscFac = VeryImpatientDiscFac * NumTypes]
    /\ type_list' = SeenThroughAll(type_list, NewTypes'[1])
    /\ pc' = "solveN"
    /\ UNCHANGED <<prog, run, args, BaselineDict, BaselineType, ThisDict, DiscFac_list,
                   i, ThisType, pooled, prev, parVars, result, nonconvergent>>

\* NewTypes[0].solve()
SolveImpatient ==
    /\ InImpatient("solveN")
    /\ NewTypes' = [NewTypes EXCEPT ![1] = TrySolve(@)]
    /\ type_list' = SeenThroughAll(type_list, NewTypes'[1])
    /\ result' = Raise(result, SolveError(NewTypes[1]))
    /\ pc' = AfterSolve(SolveError(NewTypes[1]), "solveN", "initSimN")
    /\ UNCHANGED <<prog, run, args, BaselineDict, BaselineType, ThisDict, DiscFac_list,
                   i, ThisType, pooled, prev, parVars, nonconvergent>>

\* NewTypes[0].initializeSim()
InitSimImpatient ==
    /\ InImpatient("initSimN")
    /\ NewTypes' = [NewTypes EXCEPT ![1] = CallInitializeSim(@)]
    /\ type_list' = SeenThroughAll(type_list, NewTypes'[1])
    /\ pc' = "simulateN"
    /\ UNCHANGED <<prog, run, args, BaselineDict, BaselineType, ThisDict, DiscFac_list,
                   i, ThisType, pooled, prev, parVars, result, nonconvergent>>

\* NewTypes[0].simulate()
SimulateImpatient ==
    /\ InImpatient("simulateN")
    /\ NewTypes' = [NewTypes EXCEPT ![1] = Simulate(@)]
    /\ type_list' = SeenThroughAll(type_list, NewTypes'[1])
    /\ pc' = "poolN"
    /\ UNCHANGED <<prog, run, args, BaselineDict, BaselineType, ThisDict, DiscFac_list,
                   i, ThisType, pooled, prev, parVars, result, nonconvergent>>

\* MPC_sim = np.concatenate([ThisType.MPCnow for ThisType in NewTypes])
PoolNewTypes ==
    /\ InImpatient("poolN")
    /\ pooled' = [NoPooled EXCEPT !.MPC_all = Pool(NewTypes).MPC_all]
    /\ pc' = "doneN"
    /\ UNCHANGED <<prog, run, args, BaselineDict, BaselineType, ThisDict, DiscFac_list,
                   i, ThisType, type_list, prev, parVars, result, NewTypes, nonconvergent>>

\* State after the cell that builds BaselineType and DiscFac_dstn.
InitImpatient ==
    /\ prog = "impatient"
    /\ pc = "build"
    /\ run = 1
    /\ args = [CorrAct |-> -1, CorrPcvd |-> -1,
               DiscFac_center |-> DiscFac_mean, DiscFac_spread |-> DiscFac_spread]
    /\ BaselineDict = NoDict
    /\ BaselineType = MakeBaselineType
    /\ ThisDict = NoDict
    /\ DiscFac_list = UniformApprox(DiscFac_mean, DiscFac_spread, NumTypes)
    /\ i = 1
    /\ ThisType = NoType
    /\ type_list = << >>
    /\ pooled = NoPooled
    /\ prev = [panels |-> << >>, pooled |-> NoPooled]
    /\ wpc = << >>
    /\ wType = << >>
    /\ arrival = << >>
    /\ NewTypes = << >>
    /\ nonconvergent \in SolverFailures(DiscFac_list \o <<VeryImpatientDiscFac * NumTypes>>)
    /\ result = NoResult

Init == InitExperiment \/ InitImpatient

Next ==
    \/ MakeThisDict
    \/ Discretize
    \/ LoopTest
    \/ ConstructType
    \/ SetPerceived
    \/ UpdatePerceived
    \/ SolveType
    \/ SetActual
    \/ UpdateActual
    \/ SetTsim
    \/ InitSimType
    \/ SimulateType
    \/ AppendType
    \/ PoolExperiment
    \/ CallAgain
    \/ BuildTest
    \/ CopyBaseline
    \/ SetDiscFac
    \/ SetSeed
    \/ AppendNewType
    \/ CycleTest
    \/ SolveBaseline
    \/ InitSimBaseline
    \/ SimulateBaseline
    \/ PoolBaseline
    \/ RunCellsAgain
    \/ CopyMyTypes
    \/ SetImpatient
    \/ SolveImpatient
    \/ InitSimImpatient
    \/ SimulateImpatient
    \/ PoolNewTypes

Spec == Init /\ [][Next]_vars

(* ======================= orchestration properties ====================== *)

\* C1: in runRoszypalSchlaffmanExperiment, solve() is invoked only while
\* PrstIncCorr holds the perceived value CorrPcvd, and initializeSim() and
\* simulate() run, from their invocation to their completion, with PrstIncCorr
\* set back to the actual value CorrAct.
PerceivedOnlyForSolve ==
    prog = "experiment" =>
        /\ pc = "solve" => ThisType.PrstIncCorr = args.CorrPcvd
        /\ pc \in {"initSim", "simulate", "append"} => ThisType.PrstIncCorr = args.CorrAct

\* A type that was solved under a perceived value different from the actual one
\* and has completed its simulation.
PerceivedOnlyForSolveWitness ==
    /\ prog = "experiment"
    /\ pc = "append"
    /\ args.CorrPcvd # args.CorrAct
    /\ ThisType.solution # << >>
    /\ Len(ThisType.panel.aLvlNow) = AgentCount

\* C2: in every type list built by the baseline population builder (MyTypes)
\* and by runRoszypalSchlaffmanExperiment (type_list), no two types share the
\* same random seed.
UniqueSeeds ==
    \A a, b \in 1..Len(type_list) :
        a # b => type_list[a].seed # type_list[b].seed

\* C3: executing the per-type solve/simulate loop twice on the same
\* configurations and seeds yields the same panel for every type index, and
\* the same pooled arrays.
Reproducible ==
    (run = 2 /\ pc = "done") =>
        /\ Panels(type_list) = prev.panels
        /\ pooled = prev.pooled

\* The second execution has completed with every type simulated and pooled.
ReproducibleWitness ==
    /\ run = 2
    /\ pc = "done"
    /\ Len(type_list) = NumTypes
    /\ Len(prev.panels) = NumTypes
    /\ Len(pooled.aLvl_all) = NumTypes * AgentCount

\* The experiment's loop body for the k-th type with the belief-override steps
\* (set perceived value and recompute, set actual value and recompute) left out.
TypeWithoutOverride(k) ==
    LET d == [DictWithCorr(CopyDict(BaselineDict, Obj("ThisDict", 0)), args.CorrAct)
                  EXCEPT !.DiscFac = DiscFac_list[k]]
        solved == Solve(Construct(d, k))
    IN  Simulate(InitializeSim([solved EXCEPT !.T_sim = ExperimentTsim]))

\* C4: when CorrPcvd equals CorrAct, every type's panel produced by the
\* experiment equals the panel produced with the belief-override steps omitted.
MisperceptionEquivalence ==
    (prog = "experiment" /\ pc = "done" /\ args.CorrPcvd = args.CorrAct) =>
        /\ Len(type_list) = NumTypes
        /\ \A k \in 1..NumTypes : type_list[k].panel = TypeWithoutOverride(k).panel

\* A completed experiment whose perceived and actual values coincide.
MisperceptionEquivalenceWitness ==
    /\ prog = "experiment"
    /\ pc = "done"
    /\ args.CorrPcvd = args.CorrAct
    /\ Len(type_list) = NumTypes
    /\ \A k \in 1..NumTypes : Len(type_list[k].panel.MPCnow) = AgentCount

(* ============ the per-type cycles run by separate workers ============== *)
(* The notebooks run the cycles one after another.  Here the body of each   *)
(* loop iteration is given to a worker of its own and the workers are       *)
(* interleaved freely; every statement of the body is executed as written,  *)
(* on the objects it names.  Statements that touch only the worker's own    *)
(* object are taken together.                                               *)
Workers == 1..NumTypes

\* Lines 189-203 of the experiment's loop body, applied to the worker's type.
ExperimentCycle(t, a) ==
    LET believed == UpdatepLvlNextFunc(
                        [t EXCEPT !.PrstIncCorr =
                             PerceivedValue(BaselineDict, a.CorrAct, a.CorrPcvd)])
        solved   == Solve(believed)
        actual   == UpdatepLvlNextFunc(
                        [solved EXCEPT !.PrstIncCorr =
                             ActualValue(BaselineDict, a.CorrAct, a.CorrPcvd)])
    IN  Simulate(CallInitializeSim([actual EXCEPT !.T_sim = ExperimentTsim]))

\* The k-th type as the sequential loop of the experiment leaves it.
SequentialType(k) ==
    LET d == [DictWithCorr(CopyDict(BaselineDict, Obj("ThisDict", 0)), args.CorrAct)
                  EXCEPT !.DiscFac = DiscFac_list[k]]
    IN  ExperimentCycle(Construct(d, k), args)

\* MyTypes as the construction loop leaves it.
BuiltMyTypes ==
    [k \in 1..NumTypes |->
        [DeepCopy(MakeBaselineType, Obj("NewType", k)) EXCEPT !.DiscFac = DiscFac_list[k],
                                           !.seed = BuilderSeed(k - 1)]]

\* The k-th type of MyTypes as the sequential solve/simulate loop leaves it.
SequentialBaselineType(k) == Simulate(InitializeSim(Solve(BuiltMyTypes[k])))

InParallel(p, w, at) == prog = p /\ pc = "run" /\ wpc[w] = at

\* ThisDict['DiscFac'] = DiscFac_list[i], on the dictionary the iterations share
WSetDict(w) ==
    /\ InParallel("parExperiment", w, "setDict")
    /\ ThisDict' = [ThisDict EXCEPT !.DiscFac = DiscFac_list[w]]
    /\ BaselineDict' = SeenThrough(BaselineDict, ThisDict')
    /\ wpc' = [wpc EXCEPT ![w] = "construct"]
    /\ UNCHANGED <<prog, pc, run, args, BaselineType, DiscFac_list,
                   i, ThisType, type_list, pooled, prev, wType, arrival, result,
                   NewTypes, nonconvergent>>

\* ThisType = PersistentShockConsumerTypeX(**ThisDict)
WConstruct(w) ==
    /\ InParallel("parExperiment", w, "construct")
    /\ wType' = [wType EXCEPT ![w] = Construct(ThisDict, w)]
    /\ wpc' = [wpc EXCEPT ![w] = "cycle"]
    /\ UNCHANGED <<prog, pc, run, args, BaselineDict, BaselineType, ThisDict,
                   DiscFac_list, i, ThisType, type_list, pooled, prev, arrival, result,
                   NewTypes, nonconvergent>>

\* perceived value, solve, actual value, T_sim, initializeSim, simulate
WCycle(w) ==
    /\ InParallel("parExperiment", w, "cycle")
    /\ wType' = [wType EXCEPT ![w] = ExperimentCycle(@, args)]
    /\ wpc' = [wpc EXCEPT ![w] = "append"]
    /\ UNCHANGED <<prog, pc, run, args, BaselineDict, BaselineType, ThisDict,
                   DiscFac_list, i, ThisType, type_list, pooled, prev, arrival, result,
                   NewTypes, nonconvergent>>

\* type_list.append(ThisType)
WAppend(w) ==
    /\ InParallel("parExperiment", w, "append")
    /\ type_list' = Append(type_list, wType[w])
    /\ arrival' = Append(arrival, w)
    /\ wpc' = [wpc EXCEPT ![w] = "done"]
    /\ UNCHANGED <<prog, pc, run, args, BaselineDict, BaselineType, ThisDict,
                   DiscFac_list, i, ThisType, pooled, prev, wType, result,
                   NewTypes, nonconvergent>>

\* ThisType.solve() on MyTypes[w]
WSolve(w) ==
    /\ InParallel("parImpatient", w, "solveB")
    /\ type_list' = [type_list EXCEPT ![w] = Solve(@)]
    /\ wpc' = [wpc EXCEPT ![w] = "initSimB"]
    /\ UNCHANGED <<prog, pc, run, args, BaselineDict, BaselineType, ThisDict,
                   DiscFac_list, i, ThisType, pooled, prev, wType, arrival, result,
                   NewTypes, nonconvergent>>

\* ThisType.initializeSim() on MyTypes[w]
WInitSim(w) ==
    /\ InParallel("parImpatient", w, "initSimB")
    /\ type_list' = [type_list EXCEPT ![w] = CallInitializeSim(@)]
    /\ wpc' = [wpc EXCEPT ![w] = "simulateB"]
    /\ UNCHANGED <<prog, pc, run, args, BaselineDict, BaselineType, ThisDict,
                   DiscFac_list, i, ThisType, pooled, prev, wType, arrival, result,
                   NewTypes, nonconvergent>>

\* ThisType.simulate() on MyTypes[w]
WSimulate(w) ==
    /\ InParallel("parImpatient", w, "simulateB")
    /\ type_list' = [type_list EXCEPT ![w] = Simulate(@)]
    /\ arrival' = Append(arrival, w)
    /\ wpc' = [wpc EXCEPT ![w] = "done"]
    /\ UNCHANGED <<prog, pc, run, args, BaselineDict, BaselineType, ThisDict,
                   DiscFac_list, i, ThisType, pooled, prev, wType, result,
                   NewTypes, nonconvergent>>

AllWorkersDone == \A w \in Workers : wpc[w] = "done"

\* np.concatenate over type_list, once every cycle has completed
ParPoolExperiment ==
    /\ prog = "parExperiment" /\ pc = "run" /\ AllWorkersDone
    /\ pooled' = Pool(type_list)
    /\ pc' = "done"
    /\ UNCHANGED <<prog, run, args, BaselineDict, BaselineType, ThisDict,
                   DiscFac_list, i, ThisType, type_list, prev, parVars, result,
                   NewTypes, nonconvergent>>

\* np.concatenate over MyTypes, once every cycle has completed
ParPoolBaseline ==
    /\ prog = "parImpatient" /\ pc = "run" /\ AllWorkersDone
    /\ pooled' = [NoPooled EXCEPT !.aLvl_all = Pool(type_list).aLvl_all,
                                  !.MPC_all = Pool(type_list).MPC_all]
    /\ pc' = "done"
    /\ UNCHANGED <<prog, run, args, BaselineDict, BaselineType, ThisDict,
                   DiscFac_list, i, ThisType, type_list, prev, parVars, result,
                   NewTypes, nonconvergent>>

\* The experiment at the head of its loop (lines 176-182 executed).
InitParExperiment ==
    /\ prog = "parExperiment"
    /\ pc = "run"
    /\ run = 1
    /\ args \in [CorrAct : CorrActSet, CorrPcvd : CorrPcvdSet,
                 DiscFac_center : DiscFacCenterSet, DiscFac_spread : DiscFacSpreadSet]
    /\ args.DiscFac_spread >= 0
    /\ BaselineDict = InitBaselineDict
    /\ BaselineType = NoType
    /\ ThisDict = DictWithCorr(CopyDict(BaselineDict, Obj("ThisDict", 0)), args.CorrAct)
    /\ DiscFac_list = UniformApprox(args.DiscFac_center, args.DiscFac_spread, NumTypes)
    /\ i = 0
    /\ ThisType = NoType
    /\ type_list = << >>
    /\ pooled = NoPooled
    /\ prev = [panels |-> << >>, pooled |-> NoPooled]
    /\ wpc = [w \in Workers |-> "setDict"]
    /\ wType = [w \in Workers |-> NoType]
    /\ arrival = << >>
    /\ NewTypes = << >>
    /\ nonconvergent = {}
    /\ result = NoResult

\* The very-impatient-households notebook at the head of its solve/simulate loop.
InitParImpatient ==
    /\ prog = "parImpatient"
    /\ pc = "run"
    /\ run = 1
    /\ args = [CorrAct |-> -1, CorrPcvd |-> -1,
               DiscFac_center |-> DiscFac_mean, DiscFac_spread |-> DiscFac_spread]
    /\ BaselineDict = NoDict
    /\ BaselineType = MakeBaselineType
    /\ ThisDict = NoDict
    /\ DiscFac_list = UniformApprox(DiscFac_mean, DiscFac_spread, NumTypes)
    /\ i = 0
    /\ ThisType = NoType
    /\ type_list = BuiltMyTypes
    /\ pooled = NoPooled
    /\ prev = [panels |-> << >>, pooled |-> NoPooled]
    /\ wpc = [w \in Workers |-> "solveB"]
    /\ wType = [w \in Workers |-> NoType]
    /\ arrival = << >>
    /\ NewTypes = << >>
    /\ nonconvergent = {}
    /\ result = NoResult

ParInit == InitParExperiment \/ InitParImpatient

ParNext ==
    \/ \E w \in Workers : WSetDict(w)
    \/ \E w \in Workers : WConstruct(w)
    \/ \E w \in Workers : WCycle(w)
    \/ \E w \in Workers : WAppend(w)
    \/ \E w \in Workers : WSolve(w)
    \/ \E w \in Workers : WInitSim(w)
    \/ \E w \in Workers : WSimulate(w)
    \/ ParPoolExperiment
    \/ ParPoolBaseline

ParSpec == ParInit /\ [][ParNext]_vars

\* The sequential loops leave exactly the types the worker bodies are compared
\* with (checked under Spec).
SequentialLoopsAgree ==
    /\ (prog = "experiment" /\ pc = "done") =>
           type_list = [k \in 1..NumTypes |-> SequentialType(k)]
    /\ (prog = "impatient" /\ pc = "cycle" /\ run = 1 /\ i = 1) =>
           type_list = BuiltMyTypes
    /\ (prog = "impatient" /\ pc = "done") =>
           \A k \in 1..NumTypes :
               [type_list[k] EXCEPT !.calls = << >>] =
                   [SequentialBaselineType(k) EXCEPT !.calls = << >>]

\* arr is the arrays types[1].panel[v], types[2].panel[v], ... one after the
\* other: position (k-1)*AgentCount + j holds agent j of the k-th type.
InTypeIndexOrder(arr, types, v) ==
    /\ Len(arr) = Len(types) * AgentCount
    /\ \A k \in 1..Len(types) : \A j \in 1..AgentCount :
           arr[(k - 1) * AgentCount + j] = types[k].panel[v][j]

\* The types as the sequential loop of the running notebook leaves them.
SequentialTypes ==
    IF prog = "parExperiment"
    THEN [k \in 1..NumTypes |-> SequentialType(k)]
    ELSE [k \in 1..NumTypes |-> SequentialBaselineType(k)]

RECURSIVE Sum(_)
Sum(xs) == IF xs = << >> THEN 0 ELSE Head(xs) + Sum(Tail(xs))

RECURSIVE GCD(_, _)
GCD(a, b) == IF b = 0 THEN a ELSE GCD(b, a % b)

\* The ratio n/d in lowest terms with a positive denominator.
Rat(n, d) ==
    IF d = 0 THEN <<0, 0>>
    ELSE LET g == GCD(IF n < 0 THEN -n ELSE n, IF d < 0 THEN -d ELSE d)
         IN  IF d < 0 THEN <<(-n) \div g, (-d) \div g>> ELSE <<n \div g, d \div g>>

IsNaN(x) == x[2] = 0

RatEq(x, y) == ~IsNaN(x) /\ ~IsNaN(y) /\ x[1] * y[2] = y[1] * x[2]

RatLeq(x, y) == ~IsNaN(x) /\ ~IsNaN(y) /\ x[1] * y[2] <= y[1] * x[2]

\* Two floats print the same: both non-finite, or equal.
SameFloat(x, y) == (IsNaN(x) /\ IsNaN(y)) \/ RatEq(x, y)

RatAdd(x, y) == IF IsNaN(x) \/ IsNaN(y) THEN NaN ELSE Rat(x[1] * y[2] + y[1] * x[2], x[2] * y[2])

RatDiv(x, y) == IF IsNaN(x) \/ IsNaN(y) THEN NaN ELSE Rat(x[1] * y[2], x[2] * y[1])

RatAbs(x) == IF x[1] < 0 THEN <<-x[1], x[2]>> ELSE x

\* np.mean of an array of numbers.
Mean(xs) == Rat(Sum(xs), Len(xs))

RECURSIVE RatSum(_)
RatSum(xs) == IF xs = << >> THEN <<0, 1>> ELSE RatAdd(Head(xs), RatSum(Tail(xs)))

\* np.mean of an array of floats.
RatMean(xs) == RatDiv(RatSum(xs), <<Len(xs), 1>>)

\* 1.0 - 2.0*x
OneMinusTwice(x) == IF IsNaN(x) THEN NaN ELSE Rat(x[2] - 2 * x[1], x[2])

RECURSIVE Insert(_, _)
Insert(x, sorted) ==
    IF sorted = << >> THEN <<x>>
    ELSE IF x <= Head(sorted) THEN <<x>> \o sorted
    ELSE <<Head(sorted)>> \o Insert(x, Tail(sorted))

RECURSIVE SortedData(_)
\* data[np.argsort(data)]: the values in non-decreasing order.
SortedData(xs) == IF xs = << >> THEN << >> ELSE Insert(Head(xs), SortedData(Tail(xs)))

\* np.linspace(1/GridEpsDen, 1 - 1/GridEpsDen, GridCount)
PercentileGrid ==
    [j \in 1..GridCount |->
        Rat((GridCount - 1) + (j - 1) * (GridEpsDen - 2), GridEpsDen * (GridCount - 1))]

\* The Lorenz share at population percentile p of unweighted data: the data
\* are sorted, the cumulative population share after k agents is k/n and the
\* cumulative value share is (sum of the k smallest)/total; the share at p is
\* the linear interpolation between these points, starting from (0, 0).
LorenzShareAt(sorted, p) ==
    LET n == Len(sorted)
        total == Sum(sorted)
        k == (p[1] * n) \div p[2]
    IN  IF p[1] < 0 \/ p[1] > p[2] THEN NaN
        ELSE IF k = n THEN Rat(total, total)
        ELSE Rat(Sum(SubSeq(sorted, 1, k)) * p[2] + sorted[k + 1] * (p[1] * n - k * p[2]),
                 total * p[2])

\* getLorenzShares(data, percentiles=percentiles)
GetLorenzShares(data, percentiles) ==
    [j \in 1..Len(percentiles) |-> LorenzShareAt(SortedData(data), percentiles[j])]

\* AggWealthRatio = np.mean(aLvl_all) / np.mean(pLvl_all)
AggWealthRatioOf(p) == RatDiv(Mean(p.aLvl_all), Mean(p.pLvl_all))

\* Variant: 0 is stuck on in front only.
StickFrontOnly(xs) == << <<0, 1>> >> \o xs

\* np.concatenate([[0], x, [1]]) on an array of floats
StickEnds(xs) == << <<0, 1>> >> \o xs \o << <<1, 1>> >>

\* Gini = 1.0 - 2.0*np.mean(Lorenz_init[1]): Lorenz_init is the one-dimensional
\* array of shares with 0 and 1 stuck on, so Lorenz_init[1] is its second
\* entry, a single number, and np.mean of it is that number.
GiniOf(Lorenz_init) == OneMinusTwice(Lorenz_init[2])

\* "{:.2f}".format(x) for x >= 0, as a number of hundredths (ties to even).
Decfmt2(x) ==
    LET q == (100 * x[1]) \div x[2]
        r == (100 * x[1]) % x[2]
    IN  IF 2 * r > x[2] THEN q + 1
        ELSE IF 2 * r = x[2] THEN q + (q % 2)
        ELSE q

(* ------------------- weighted order statistics ------------------------ *)
\* Weights of a call that passes none: every observation counts once.
UnitWeights(data) == [j \in 1..Len(data) |-> 1]

\* "none", or the error a sample and its weights are rejected with.
SampleError(values, weights) ==
    IF values = << >> THEN "EmptySampleError"
    ELSE IF (\E j \in 1..Len(weights) : weights[j] < 0) \/ Sum(weights) = 0
         THEN "InvalidWeightError"
    ELSE "none"

RECURSIVE InsertPair(_, _)
InsertPair(x, sorted) ==
    IF sorted = << >> THEN <<x>>
    ELSE IF x[1] <= Head(sorted)[1] THEN <<x>> \o sorted
    ELSE <<Head(sorted)>> \o InsertPair(x, Tail(sorted))

RECURSIVE SortPairs(_)
SortPairs(pairs) ==
    IF pairs = << >> THEN << >> ELSE InsertPair(Head(pairs), SortPairs(Tail(pairs)))

\* The observations <<value, weight>> sorted by value.
SortedByValue(values, weights) ==
    SortPairs([j \in 1..Len(values) |-> <<values[j], weights[j]>>])

\* Cumulative weight and cumulative weighted value of the first k sorted observations.
CumWeight(sorted, k) == Sum([j \in 1..k |-> sorted[j][2]])

CumValue(sorted, k) == Sum([j \in 1..k |-> sorted[j][1] * sorted[j][2]])

\* Number of sorted observations whose cumulative weight share is at most p.
CountUpTo(sorted, p) ==
    Cardinality({k \in 1..Len(sorted) :
                    CumWeight(sorted, k) * p[2] <= p[1] * CumWeight(sorted, Len(sorted))})

\* Variant: a negative cumulative value counts as zero.
WeightedLorenzShareAtClamped(sorted, p) ==
    LET n == Len(sorted)
        W == CumWeight(sorted, n)
        D == CumValue(sorted, n)
        k == CountUpTo(sorted, p)
        num == IF k = n THEN D * p[2]
               ELSE CumValue(sorted, k) * p[2]
                        + sorted[k + 1][1] * (p[1] * W - CumWeight(sorted, k) * p[2])
    IN  IF p[1] < 0 \/ p[1] > p[2] THEN NaN
        ELSE Rat(IF num < 0 THEN 0 ELSE num, D * p[2])

\* The share of total value held by the bottom p fraction of the weighted
\* population: linear interpolation of the cumulative value share over the
\* cumulative weight share, from (0, 0) to (1, 1).
WeightedLorenzShareAt(sorted, p) ==
    LET n == Len(sorted)
        W == CumWeight(sorted, n)
        D == CumValue(sorted, n)
        k == CountUpTo(sorted, p)
    IN  IF p[1] < 0 \/ p[1] > p[2] THEN NaN
        ELSE IF k = n THEN Rat(D, D)
        ELSE Rat(CumValue(sorted, k) * p[2]
                     + sorted[k + 1][1] * (p[1] * W - CumWeight(sorted, k) * p[2]),
                 D * p[2])

\* getLorenzShares(data, weights=weights, percentiles=percentiles)
GetLorenzSharesWeighted(data, weights, percentiles) ==
    [j \in 1..Len(percentiles) |->
        WeightedLorenzShareAt(SortedByValue(data, weights), percentiles[j])]

\* Variant: the largest value whose cumulative weight share is at most p
\* (the smallest value when there is none).
WeightedPercentileUpper(values, weights, p) ==
    LET sorted == SortedByValue(values, weights)
        k == CountUpTo(sorted, p)
    IN  sorted[IF k = 0 THEN 1 ELSE k][1]

\* The smallest value whose cumulative weight share is at least p.
WeightedPercentile(values, weights, p) ==
    LET sorted == SortedByValue(values, weights)
        W == CumWeight(sorted, Len(sorted))
        k == CHOOSE k \in 1..Len(sorted) :
                 /\ CumWeight(sorted, k) * p[2] >= p[1] * W
                 /\ \A m \in 1..(k - 1) : CumWeight(sorted, m) * p[2] < p[1] * W
    IN  sorted[k][1]

\* getPercentiles(data, percentiles=percentiles)
GetPercentiles(data, weights, percentiles) ==
    [j \in 1..Len(percentiles) |-> WeightedPercentile(data, weights, percentiles[j])]

\* Variant: the upper bound is excluded.
BucketHalfOpen(reference, cutoff) ==
    LET lo == WeightedPercentile(reference, UnitWeights(reference), cutoff[1])
        hi == WeightedPercentile(reference, UnitWeights(reference), cutoff[2])
    IN  {j \in 1..Len(reference) : lo <= reference[j] /\ reference[j] < hi}

\* The agents of one cutoff pair: those whose reference value lies between
\* the reference percentiles of the pair, both included.
Bucket(reference, cutoff) ==
    LET lo == WeightedPercentile(reference, UnitWeights(reference), cutoff[1])
        hi == WeightedPercentile(reference, UnitWeights(reference), cutoff[2])
    IN  {j \in 1..Len(reference) : lo <= reference[j] /\ reference[j] <= hi}

RECURSIVE SumOver(_, _)
SumOver(data, members) ==
    IF members = {} THEN 0
    ELSE LET j == CHOOSE j \in members : TRUE
         IN  data[j] + SumOver(data, members \ {j})

\* Variant: the averages come out in the reverse order of the cutoff pairs.
CalcSubpopAvgReversed(data, reference, cutoffs) ==
    IF SampleError(reference, UnitWeights(reference)) # "none"
    THEN [avg |-> << >>, error |-> SampleError(reference, UnitWeights(reference))]
    ELSE IF \E c \in 1..Len(cutoffs) : Bucket(reference, cutoffs[c]) = {}
    THEN [avg |-> << >>, error |-> "EmptyBucketError"]
    ELSE [avg |-> [c \in 1..Len(cutoffs) |->
                      Rat(SumOver(data, Bucket(reference, cutoffs[Len(cutoffs) + 1 - c])),
                          Cardinality(Bucket(reference, cutoffs[Len(cutoffs) + 1 - c])))],
          error |-> "none"]

\* Variant: the average of an empty bucket is returned as 0/0.
CalcSubpopAvgSilent(data, reference, cutoffs) ==
    IF SampleError(reference, UnitWeights(reference)) # "none"
    THEN [avg |-> << >>, error |-> SampleError(reference, UnitWeights(reference))]
    ELSE [avg |-> [c \in 1..Len(cutoffs) |->
                      Rat(SumOver(data, Bucket(reference, cutoffs[c])),
                          Cardinality(Bucket(reference, cutoffs[c])))],
          error |-> "none"]

\* calcSubpopAvg(data, reference, cutoffs): one average of data per cutoff
\* pair, in the order of the pairs; an empty bucket is an error.
CalcSubpopAvg(data, reference, cutoffs) ==
    IF SampleError(reference, UnitWeights(reference)) # "none"
    THEN [avg |-> << >>, error |-> SampleError(reference, UnitWeights(reference))]
    ELSE IF \E c \in 1..Len(cutoffs) : Bucket(reference, cutoffs[c]) = {}
    THEN [avg |-> << >>, error |-> "EmptyBucketError"]
    ELSE [avg |-> [c \in 1..Len(cutoffs) |->
                      Rat(SumOver(data, Bucket(reference, cutoffs[c])),
                          Cardinality(Bucket(reference, cutoffs[c])))],
          error |-> "none"]

\* cutoffs=[(0.0,0.2), (0.2,0.4), (0.4,0.6), (0.6,0.8), (0.8,1.0)]
QuintileCutoffs ==
    << << <<0, 1>>, <<1, 5>> >>, << <<1, 5>>, <<2, 5>> >>, << <<2, 5>>, <<3, 5>> >>,
       << <<3, 5>>, <<4, 5>> >>, << <<4, 5>>, <<1, 1>> >> >>

\* Variant: the income levels are averaged by MPC quintile.
AvgMPCSwapped(p) == CalcSubpopAvg(p.pLvl_all, p.MPC_all, QuintileCutoffs)

\* Avg_MPC = calcSubpopAvg(MPC_all, pLvl_all, cutoffs=[(0.0,0.2), ..., (0.8,1.0)])
AvgMPCOf(p) == CalcSubpopAvg(p.MPC_all, p.pLvl_all, QuintileCutoffs)

(* ------------- the statistics applied to simulated panels -------------- *)
\* Terminal arrays a simulation may return (simulate() is outside this code):
\* asset levels aLvl0, aLvl0 + aStep, ... and permanent income pLvl.
PanelShapes ==
    { [aLvl0 |-> 2, aStep |-> 0, pLvl |-> 1], [aLvl0 |-> 2, aStep |-> 2, pLvl |-> 1],
      [aLvl0 |-> 6, aStep |-> 2, pLvl |-> 1], [aLvl0 |-> 2, aStep |-> 2, pLvl |-> 2] }

SimulatedType(shape, n) ==
    [NoType EXCEPT
        !.AgentCount = n,
        !.panel = [aLvlNow |-> [j \in 1..n |-> shape.aLvl0 + (j - 1) * shape.aStep],
                   pLvlNow |-> [j \in 1..n |-> shape.pLvl],
                   cLvlNow |-> [j \in 1..n |-> shape.aLvl0 + (j - 1) * shape.aStep + 3 * shape.pLvl],
                   MPCnow  |-> [j \in 1..n |-> 90 - 10 * j - shape.aLvl0 - (j - 1) * shape.aStep]]]

SimulatedTypes == { SimulatedType(sh, n) : sh \in PanelShapes, n \in 1..AgentCount }

\* cLvl_all, aLvl_all, MPC_all, pLvl_all (experiment); aLvl_all (part_000)
PoolPanels ==
    /\ prog \in {"statsExperiment", "statsImpatient"}
    /\ pc = "pool"
    /\ LET error == ConcatenateError(Column(type_list, "aLvlNow"))
       IN  /\ pooled' = IF error # "none" THEN pooled
                        ELSE IF prog = "statsExperiment" THEN Pool(type_list)
                        ELSE [NoPooled EXCEPT !.aLvl_all = Pool(type_list).aLvl_all]
           /\ result' = Raise(result, error)
           /\ pc' = IF error = "none" THEN "stats" ELSE "raised"
    /\ UNCHANGED <<prog, run, args, BaselineDict, BaselineType, ThisDict,
                   DiscFac_list, i, ThisType, type_list, prev, parVars,
                   NewTypes, nonconvergent>>

\* Variant: the shares get 1 stuck on in front and 0 at the end.
LorenzCurveSwappedEnds(percentiles, shares) ==
    <<StickEnds(percentiles), << <<1, 1>> >> \o shares \o << <<0, 1>> >> >>

\* Lorenz = np.stack((wealth_percentile, Lorenz_init)) after
\* np.concatenate([[0], x, [1]]) on both arrays.
LorenzCurve(percentiles, shares) == <<StickEnds(percentiles), StickEnds(shares)>>

\* AggWealthRatio, wealth_percentile, Lorenz_init, Lorenz, Gini and Avg_MPC of
\* the experiment, from the pooled arrays to the return statement.
ComputeStatistics ==
    /\ prog = "statsExperiment"
    /\ pc = "stats"
    /\ LET Lorenz == LorenzCurve(PercentileGrid,
                                 GetLorenzShares(pooled.aLvl_all, PercentileGrid))
           Avg_MPC == AvgMPCOf(pooled)
       IN  result' = [AggWealthRatio |-> AggWealthRatioOf(pooled),
                      wealth_percentile |-> Lorenz[1],
                      Lorenz_init |-> Lorenz[2],
                      Lorenz |-> Lorenz,
                      Gini |-> GiniOf(Lorenz[2]),
                      Avg_MPC |-> Avg_MPC.avg,
                      printed |-> -1,
                      error |-> Avg_MPC.error]
    /\ pc' = "done"
    /\ UNCHANGED <<prog, run, args, BaselineDict, BaselineType, ThisDict,
                   DiscFac_list, i, ThisType, type_list, pooled, prev, parVars,
                   NewTypes, nonconvergent>>

\* print('The ratio of aggregate capital to permanent income is ' + decfmt2(np.mean(aLvl_all)))
PrintCapitalRatio ==
    /\ prog = "statsImpatient"
    /\ pc = "stats"
    /\ result' = [NoResult EXCEPT !.printed = Decfmt2(Mean(pooled.aLvl_all))]
    /\ pc' = "done"
    /\ UNCHANGED <<prog, run, args, BaselineDict, BaselineType, ThisDict,
                   DiscFac_list, i, ThisType, type_list, pooled, prev, parVars,
                   NewTypes, nonconvergent>>

\* After the solve/simulate loop: a list of up to MaxPanels simulated types.
StatInit ==
    /\ prog \in {"statsExperiment", "statsImpatient"}
    /\ pc = "pool"
    /\ run = 1
    /\ args = [CorrAct |-> -1, CorrPcvd |-> -1, DiscFac_center |-> -1, DiscFac_spread |-> -1]
    /\ BaselineDict = NoDict
    /\ BaselineType = NoType
    /\ ThisDict = NoDict
    /\ DiscFac_list = << >>
    /\ i = 0
    /\ ThisType = NoType
    /\ \E n \in 0..MaxPanels : type_list \in [1..n -> SimulatedTypes]
    /\ pooled = NoPooled
    /\ prev = [panels |-> << >>, pooled |-> NoPooled]
    /\ wpc = << >>
    /\ wType = << >>
    /\ arrival = << >>
    /\ NewTypes = << >>
    /\ nonconvergent = {}
    /\ result = NoResult

StatNext ==
    \/ PoolPanels
    \/ ComputeStatistics
    \/ PrintCapitalRatio

StatSpec == StatInit /\ [][StatNext]_vars

(* ========== the statistics and the discretizer, call by call =========== *)
\* Values and weights of the samples (net worth may be negative, a weight
\* may be zero).
ValueSet == -1..2
WeightSet == 0..2

Samples(S) == UNION { [1..n -> S] : n \in 0..MaxSample }

\* A grid that includes the endpoints 0 and 1.
QuarterGrid == << <<0, 1>>, <<1, 4>>, <<1, 2>>, <<3, 4>>, <<1, 1>> >>

GridSet == {QuarterGrid, PercentileGrid}

\* The sample of the percentile example: [1,2,3,4,5] with equal weights.
ExampleSample == [data |-> <<1, 2, 3, 4, 5>>, weights |-> <<1, 1, 1, 1, 1>>]

\* Arguments of getLorenzShares and getPercentiles: weights << >> stands for
\* a call that passes no weights.
SampleArgs ==
    { [data |-> d, weights |-> w, percentiles |-> g] :
        d \in Samples(ValueSet), w \in Samples(WeightSet), g \in GridSet }

InFunction(f, at) == prog = f /\ pc = at

EffectiveWeights(a) == IF a.weights = << >> THEN UnitWeights(a.data) ELSE a.weights

\* SCF_Lorenz_points = getLorenzShares(SCF_wealth,weights=SCF_weights,percentiles=pctiles)
\* sim_Lorenz_points = getLorenzShares(sim_wealth,percentiles=pctiles)
CallGetLorenzShares ==
    /\ InFunction("getLorenzShares", "call")
    /\ result' =
         IF SampleError(args.data, EffectiveWeights(args)) # "none"
         THEN [shares |-> << >>, error |-> SampleError(args.data, EffectiveWeights(args))]
         ELSE [shares |-> IF args.weights = << >>
                          THEN GetLorenzShares(args.data, args.percentiles)
                          ELSE GetLorenzSharesWeighted(args.data, args.weights, args.percentiles),
               error |-> "none"]
    /\ pc' = "done"
    /\ UNCHANGED <<prog, run, args, BaselineDict, BaselineType, ThisDict,
                   DiscFac_list, i, ThisType, type_list, pooled, prev, parVars,
                   NewTypes, nonconvergent>>

\* MPCpercentiles_quarterly = getPercentiles(MPC_sim,percentiles=percentiles)
CallGetPercentiles ==
    /\ InFunction("getPercentiles", "call")
    /\ result' =
         IF SampleError(args.data, EffectiveWeights(args)) # "none"
         THEN [values |-> << >>, error |-> SampleError(args.data, EffectiveWeights(args))]
         ELSE [values |-> GetPercentiles(args.data, EffectiveWeights(args), args.percentiles),
               error |-> "none"]
    /\ pc' = "done"
    /\ UNCHANGED <<prog, run, args, BaselineDict, BaselineType, ThisDict,
                   DiscFac_list, i, ThisType, type_list, pooled, prev, parVars,
                   NewTypes, nonconvergent>>

\* Cutoff lists: the whole sample, the quintiles of the experiment, two
\* halves, and a pair whose upper percentile lies below its lower one.
CutoffSet ==
    { << << <<0, 1>>, <<1, 1>> >> >>,
      QuintileCutoffs,
      << << <<0, 1>>, <<1, 2>> >>, << <<1, 2>>, <<1, 1>> >> >>,
      << << <<0, 1>>, <<1, 1>> >>, << <<3, 4>>, <<1, 4>> >> >> }

\* Target values of calcSubpopAvg called on its own.
TargetSet == {1, 2}

\* Arguments of calcSubpopAvg: any target with any reference of the same
\* length, the reference itself included as target.
SubpopArgs ==
    { [data |-> d, reference |-> r, cutoffs |-> c] :
        d \in Samples(TargetSet) \cup Samples(ValueSet), r \in Samples(ValueSet),
        c \in CutoffSet }

\* Avg_MPC = calcSubpopAvg(MPC_all, pLvl_all, cutoffs=...), on any arguments
CallCalcSubpopAvg ==
    /\ InFunction("calcSubpopAvg", "call")
    /\ result' = CalcSubpopAvg(args.data, args.reference, args.cutoffs)
    /\ pc' = "done"
    /\ UNCHANGED <<prog, run, args, BaselineDict, BaselineType, ThisDict,
                   DiscFac_list, i, ThisType, type_list, pooled, prev, parVars,
                   NewTypes, nonconvergent>>

\* Arguments of the discretizer: the centers and spreads of the notebooks,
\* a negative spread, and counts from -1 to MaxBins.
ApproxArgs ==
    [center : DiscFacCenterSet \cup {DiscFac_mean},
     spread : DiscFacSpreadSet \cup {DiscFac_spread},
     N : (-1)..MaxBins]

\* Uniform(bot=center-spread, top=center+spread).approx(N), on any arguments
CallApprox ==
    /\ InFunction("approx", "call")
    /\ result' = Discretizer(args.center, args.spread, args.N)
    /\ pc' = "done"
    /\ UNCHANGED <<prog, run, args, BaselineDict, BaselineType, ThisDict,
                   DiscFac_list, i, ThisType, type_list, pooled, prev, parVars,
                   NewTypes, nonconvergent>>

\* A statistic or the discretizer about to be called on its arguments.
FuncInit ==
    /\ pc = "call"
    /\ run = 1
    /\ \/ /\ prog \in {"getLorenzShares", "getPercentiles"}
          /\ \/ /\ args \in SampleArgs
                /\ args.weights = << >> \/ Len(args.weights) = Len(args.data)
             \/ \E g \in GridSet :
                    args = [data |-> ExampleSample.data,
                            weights |-> ExampleSample.weights, percentiles |-> g]
       \/ /\ prog = "approx"
          /\ args \in ApproxArgs
       \/ /\ prog = "calcSubpopAvg"
          /\ args \in SubpopArgs
          /\ Len(args.data) = Len(args.reference)
          /\ args.data \in Samples(TargetSet) \/ args.data = args.reference
    /\ BaselineDict = NoDict
    /\ BaselineType = NoType
    /\ ThisDict = NoDict
    /\ DiscFac_list = << >>
    /\ i = 0
    /\ ThisType = NoType
    /\ type_list = << >>
    /\ pooled = NoPooled
    /\ prev = [panels |-> << >>, pooled |-> NoPooled]
    /\ wpc = << >>
    /\ wType = << >>
    /\ arrival = << >>
    /\ NewTypes = << >>
    /\ nonconvergent = {}
    /\ result = NoResult

FuncNext ==
    \/ CallGetLorenzShares
    \/ CallGetPercentiles
    \/ CallCalcSubpopAvg
    \/ CallApprox

FuncSpec == FuncInit /\ [][FuncNext]_vars

\* The discretizer called on its own, and called by the notebooks.
DiscretizerInit == Init \/ (FuncInit /\ prog = "approx")

DiscretizerNext == Next \/ CallApprox

DiscretizerSpec == DiscretizerInit /\ [][DiscretizerNext]_vars

(* ============ PersistentShockConsumerTypeX.getControls ================= *)
(* self is held in ThisType, the local arrays cLvlNow and MPCnow in result, *)
(* together with the number of times each entry was assigned.               *)

\* np.nan
NotANumber == [f |-> "nan", t |-> -1, m |-> -1, p |-> -1]

\* self.solution[t].cFunc(m, p) at one agent: the value of period t's
\* consumption function at that agent's m and p.
CFunc(t, m, p) == [f |-> "cFunc", t |-> t, m |-> m, p |-> p]

\* self.solution[t].cFunc.derivativeX(m, p) at one agent.
CFuncDerivativeX(t, m, p) == [f |-> "cFunc.derivativeX", t |-> t, m |-> m, p |-> p]

\* Variant: the mask selects the agents at or before period t.
TheseAtMost(t, t_cycle) == { j \in DOMAIN t_cycle : t_cycle[j] <= t }

\* these = t == self.t_cycle: the agents whose cycle period is t.
These(t, t_cycle) == { j \in DOMAIN t_cycle : t_cycle[j] = t }

\* Market resources and permanent income levels of the agents.
LevelSet == {1, 2}

\* self before getControls: AgentCount agents, each with a cycle period (one
\* past the last period included), market resources and permanent income.
ControlsSelves ==
    UNION { [AgentCount : {AgentCount}, T_cycle : {T},
             t_cycle : [1..AgentCount -> 0..T], mLvlNow : [1..AgentCount -> LevelSet],
             pLvlNow : [1..AgentCount -> LevelSet], cLvlNow : {<< >>}, MPCnow : {<< >>}] :
            T \in 1..MaxCycle }

InControls(at) == prog = "getControls" /\ pc = at

\* cLvlNow = np.zeros(self.AgentCount) + np.nan; MPCnow likewise
AllocControls ==
    /\ InControls("alloc")
    /\ result' = [cLvlNow |-> [j \in 1..ThisType.AgentCount |-> NotANumber],
                  MPCnow |-> [j \in 1..ThisType.AgentCount |-> NotANumber],
                  writes |-> [j \in 1..ThisType.AgentCount |-> 0]]
    /\ i' = 1
    /\ pc' = "loop"
    /\ UNCHANGED <<prog, run, args, BaselineDict, BaselineType, ThisDict, DiscFac_list,
                   ThisType, type_list, pooled, prev, parVars, NewTypes, nonconvergent>>

\* for t in range(self.T_cycle): next period or leave the loop (t is i - 1)
ControlsLoopTest ==
    /\ InControls("loop")
    /\ pc' = IF i <= ThisType.T_cycle THEN "these" ELSE "store"
    /\ UNCHANGED <<prog, run, args, BaselineDict, BaselineType, ThisDict, DiscFac_list, i,
                   ThisType, type_list, pooled, prev, parVars, result, NewTypes,
                   nonconvergent>>

\* these = t == self.t_cycle; cLvlNow[these] = ...; MPCnow[these] = ...
AssignControls ==
    /\ InControls("these")
    /\ LET t == i - 1
           these == These(t, ThisType.t_cycle)
       IN  result' =
             [cLvlNow |-> [j \in 1..Len(result.cLvlNow) |->
                             IF j \in these
                             THEN CFunc(t, ThisType.mLvlNow[j], ThisType.pLvlNow[j])
                             ELSE result.cLvlNow[j]],
              MPCnow |-> [j \in 1..Len(result.MPCnow) |->
                             IF j \in these
                             THEN CFuncDerivativeX(t, ThisType.mLvlNow[j], ThisType.pLvlNow[j])
                             ELSE result.MPCnow[j]],
              writes |-> [j \in 1..Len(result.writes) |->
                             IF j \in these THEN result.writes[j] + 1 ELSE result.writes[j]]]
    /\ i' = i + 1
    /\ pc' = "loop"
    /\ UNCHANGED <<prog, run, args, BaselineDict, BaselineType, ThisDict, DiscFac_list,
                   ThisType, type_list, pooled, prev, parVars, NewTypes, nonconvergent>>

\* self.cLvlNow = cLvlNow; self.MPCnow = MPCnow
StoreControls ==
    /\ InControls("store")
    /\ ThisType' = [ThisType EXCEPT !.cLvlNow = result.cLvlNow, !.MPCnow = result.MPCnow]
    /\ pc' = "done"
    /\ UNCHANGED <<prog, run, args, BaselineDict, BaselineType, ThisDict, DiscFac_list, i,
                   type_list, pooled, prev, parVars, result, NewTypes, nonconvergent>>

\* getControls about to run on self.
ControlsInit ==
    /\ prog = "getControls"
    /\ pc = "alloc"
    /\ run = 1
    /\ args = [CorrAct |-> -1, CorrPcvd |-> -1, DiscFac_center |-> -1, DiscFac_spread |-> -1]
    /\ BaselineDict = NoDict
    /\ BaselineType = NoType
    /\ ThisDict = NoDict
    /\ DiscFac_list = << >>
    /\ i = 0
    /\ ThisType \in ControlsSelves
    /\ type_list = << >>
    /\ pooled = NoPooled
    /\ prev = [panels |-> << >>, pooled |-> NoPooled]
    /\ wpc = << >>
    /\ wType = << >>
    /\ arrival = << >>
    /\ NewTypes = << >>
    /\ nonconvergent = {}
    /\ result = NoResult

ControlsNext ==
    \/ AllocControls
    \/ ControlsLoopTest
    \/ AssignControls
    \/ StoreControls

ControlsSpec == ControlsInit /\ [][ControlsNext]_vars

(* ======================== pooling properties =========================== *)
\* Number of agents of the types before the k-th.
Offset(types, k) == Sum([m \in 1..(k - 1) |-> types[m].AgentCount])

TotalAgents(types) == Sum([m \in 1..Len(types) |-> types[m].AgentCount])

\* Sum of variable v over every agent of every type.
TotalOf(types, v) == Sum([m \in 1..Len(types) |-> Sum(types[m].panel[v])])

HoldsAgent(arr, pos, types, k, j, v) ==
    pos \in DOMAIN arr /\ arr[pos] = types[k].panel[v][j]

\* C6: after pooling, every position of cLvl_all, aLvl_all, MPC_all and pLvl_all
\* holds the values of one and the same agent (type k, agent j of that type),
\* for any number of types and any per-type AgentCount.
AgentAlignment ==
    (prog = "statsExperiment" /\ pc \in {"stats", "done"}) =>
        \A k \in 1..Len(type_list) : \A j \in 1..type_list[k].AgentCount :
            LET pos == Offset(type_list, k) + j
            IN  /\ HoldsAgent(pooled.cLvl_all, pos, type_list, k, j, "cLvlNow")
                /\ HoldsAgent(pooled.aLvl_all, pos, type_list, k, j, "aLvlNow")
                /\ HoldsAgent(pooled.MPC_all, pos, type_list, k, j, "MPCnow")
                /\ HoldsAgent(pooled.pLvl_all, pos, type_list, k, j, "pLvlNow")

\* Pooled arrays of three types of different sizes and different panels.
AgentAlignmentWitness ==
    /\ prog = "statsExperiment"
    /\ pc = "done"
    /\ Len(type_list) = 3
    /\ type_list[1].AgentCount # type_list[2].AgentCount
    /\ type_list[1].panel # type_list[3].panel
    /\ Len(pooled.MPC_all) = TotalAgents(type_list)

\* C7: each type contributes exactly its own AgentCount observations to every
\* pooled array: the pooled length is the sum of the types' AgentCount values.
PooledLength ==
    pc \in {"stats", "done"} =>
        /\ Len(pooled.aLvl_all) = TotalAgents(type_list)
        /\ prog = "statsExperiment" =>
               /\ Len(pooled.cLvl_all) = TotalAgents(type_list)
               /\ Len(pooled.MPC_all) = TotalAgents(type_list)
               /\ Len(pooled.pLvl_all) = TotalAgents(type_list)

\* Pooled arrays of types with unequal AgentCount.
PooledLengthWitness ==
    /\ pc = "done"
    /\ Len(type_list) >= 2
    /\ type_list[1].AgentCount < type_list[2].AgentCount
    /\ Len(pooled.aLvl_all) = type_list[1].AgentCount + TotalAgents(Tail(type_list))

(* ======================= statistics properties ========================= *)
\* Pooled mean of assets over pooled mean of permanent income, over all agents
\* of all types.
MeanOverMean == Rat(TotalOf(type_list, "aLvlNow"), TotalOf(type_list, "pLvlNow"))

\* C8: the reported aggregate wealth-to-income ratio, of the
\* experiment and of the capital-to-income cell alike, equals the pooled mean of
\* assets divided by the pooled mean of permanent income (the printed figure
\* to its two decimals), whenever mean income is not zero.
RatioIsMeanOverMean ==
    (pc = "done" /\ TotalOf(type_list, "pLvlNow") # 0) =>
        /\ prog = "statsExperiment" => RatEq(result.AggWealthRatio, MeanOverMean)
        /\ prog = "statsImpatient" => result.printed = Decfmt2(MeanOverMean)

\* C9: the Gini coefficient returned by the experiment is 1 - 2*mean(shares),
\* the mean taken over all Lorenz shares of the percentile grid.
GiniIsOneMinusTwiceMean ==
    (prog = "statsExperiment" /\ pc = "done" /\ result.error = "none") =>
        SameFloat(result.Gini, OneMinusTwice(RatMean(result.Lorenz_init)))

\* Largest spacing of the percentile grid with 0 and 1 stuck on: the larger of
\* the end gap 1/GridEpsDen and the interior step.
GridSpacing ==
    LET gap == Rat(1, GridEpsDen)
        step == Rat(GridEpsDen - 2, GridEpsDen * (GridCount - 1))
    IN  IF RatLeq(gap, step) THEN step ELSE gap

\* Every pooled agent holds the same positive wealth, and the population is
\* large enough for the grid (no share is undefined).
EqualPositiveWealth ==
    /\ Len(pooled.aLvl_all) >= GridEpsDen
    /\ \A j \in DOMAIN pooled.aLvl_all :
           pooled.aLvl_all[j] > 0 /\ pooled.aLvl_all[j] = pooled.aLvl_all[1]

\* C10: for a pooled population in which every agent holds the same positive
\* wealth, the Gini coefficient computed by the experiment is 0 within the
\* discretization tolerance of the percentile grid (one grid spacing).
GiniZeroForEqualWealth ==
    (prog = "statsExperiment" /\ pc = "done" /\ result.error = "none"
        /\ EqualPositiveWealth) =>
        RatLeq(RatAbs(result.Gini), GridSpacing)

(* ========================= Lorenz properties =========================== *)
\* C11: the Lorenz curve returned by the experiment is a paired sequence: the
\* percentile array and the share array have the same length, the first point
\* is (0, 0) and the last point is (1, 1), for every pooled asset sample.
LorenzIsPairedCurve ==
    (prog = "statsExperiment" /\ pc = "done" /\ result.error = "none") =>
        LET percentiles == result.Lorenz[1]
            shares == result.Lorenz[2]
        IN  /\ Len(result.Lorenz) = 2
            /\ Len(percentiles) = Len(shares)
            /\ Len(shares) >= 2
            /\ RatEq(percentiles[1], <<0, 1>>) /\ RatEq(shares[1], <<0, 1>>)
            /\ RatEq(percentiles[Len(percentiles)], <<1, 1>>)
            /\ RatEq(shares[Len(shares)], <<1, 1>>)

\* A curve of unequal wealth has been returned: its interior shares lie
\* strictly below the percentiles.
LorenzIsPairedCurveWitness ==
    /\ prog = "statsExperiment"
    /\ pc = "done"
    /\ Len(result.Lorenz) = 2
    /\ Len(result.Lorenz[2]) = GridCount + 2
    /\ \A j \in 2..(GridCount + 1) :
           /\ RatLeq(result.Lorenz[2][j], result.Lorenz[1][j])
           /\ ~RatEq(result.Lorenz[2][j], result.Lorenz[1][j])

\* The shares of the curve never decrease where its percentiles do not.
NonDecreasing(curve) ==
    \A j, k \in 1..Len(curve[1]) :
        RatLeq(curve[1][j], curve[1][k]) => RatLeq(curve[2][j], curve[2][k])

\* The weighted total of the sample of a call is positive.
PositiveTotal(a) == Sum([j \in 1..Len(a.data) |-> a.data[j] * EffectiveWeights(a)[j]]) > 0

\* C12 (as stated): for every sample, negative values included, every
\* non-negative weight vector with positive total and every increasing grid,
\* the Lorenz shares are non-decreasing in the percentile, also across the
\* endpoints 0 and 1 the experiment sticks onto the curve.
LorenzNonDecreasing ==
    (InFunction("getLorenzShares", "done") /\ result.error = "none" /\ PositiveTotal(args)) =>
        NonDecreasing(LorenzCurve(args.percentiles, result.shares))

\* C12 (amended): for every sample of non-negative values with positive
\* total, every non-negative weight vector with positive total and every
\* increasing grid, the Lorenz shares are non-decreasing in the percentile,
\* also across the endpoints 0 and 1 the experiment sticks onto the curve.
LorenzNonDecreasingNonNegative ==
    (InFunction("getLorenzShares", "done") /\ result.error = "none" /\ PositiveTotal(args)
        /\ \A j \in 1..Len(args.data) : args.data[j] >= 0) =>
        NonDecreasing(LorenzCurve(args.percentiles, result.shares))

\* Shares of an unequal, weighted, non-negative sample on the grid without
\* endpoints: they rise strictly somewhere.
LorenzNonDecreasingNonNegativeWitness ==
    /\ InFunction("getLorenzShares", "done")
    /\ result.error = "none"
    /\ args.data = <<2, 0, 1>>
    /\ args.weights = <<1, 2, 1>>
    /\ args.percentiles = PercentileGrid
    /\ ~RatEq(result.shares[1], result.shares[GridCount])

RECURSIVE Repeated(_, _)
Repeated(x, n) == IF n = 0 THEN << >> ELSE <<x>> \o Repeated(x, n - 1)

RECURSIVE Households(_, _)
\* The weighted sample written out one household at a time: each value as
\* many times as its weight.
Households(values, weights) ==
    IF values = << >> THEN << >>
    ELSE Repeated(Head(values), Head(weights)) \o Households(Tail(values), Tail(weights))

\* The value held by the m poorest households of the call's sample.
BottomValue(a, m) == Sum(SubSeq(SortedData(Households(a.data, EffectiveWeights(a))), 1, m))

\* C13: getLorenzShares on a sample that contains negative values and has a
\* positive total returns shares without failing, and the share at a
\* percentile is the value of the bottom fraction over the total: negative
\* whenever the cumulative value of the bottom fraction is negative.
LorenzNegativeShares ==
    (InFunction("getLorenzShares", "done") /\ PositiveTotal(args)
        /\ \E j \in 1..Len(args.data) : args.data[j] < 0) =>
        LET W == Sum(EffectiveWeights(args))
        IN  /\ result.error = "none"
            /\ Len(result.shares) = Len(args.percentiles)
            /\ \A j \in 1..Len(result.shares) :
                   LET p == args.percentiles[j]
                   IN  /\ ~IsNaN(result.shares[j])
                       /\ (p[1] * W) % p[2] = 0 =>
                              /\ RatEq(result.shares[j],
                                       Rat(BottomValue(args, (p[1] * W) \div p[2]),
                                           BottomValue(args, W)))
                              /\ BottomValue(args, (p[1] * W) \div p[2]) < 0 =>
                                     result.shares[j][1] < 0

\* Net worth -1 and 2 with weights 2 and 2: the poorest quarter holds -1 of
\* a total of 2.
LorenzNegativeSharesWitness ==
    /\ InFunction("getLorenzShares", "done")
    /\ args.data = <<2, -1>>
    /\ args.weights = <<2, 2>>
    /\ args.percentiles = QuarterGrid
    /\ result.error = "none"
    /\ result.shares[2] = <<-1, 2>>

(* ======================= percentile properties ========================= *)
\* The weight of the observations of the call's sample with value at most v.
WeightUpTo(a, v) ==
    Sum([j \in 1..Len(a.data) |-> IF a.data[j] <= v THEN EffectiveWeights(a)[j] ELSE 0])

\* v is the smallest value of the sample whose cumulative weight share is at least p.
IsLowerBoundPercentile(a, p, v) ==
    LET W == Sum(EffectiveWeights(a))
    IN  /\ \E j \in 1..Len(a.data) : a.data[j] = v
        /\ WeightUpTo(a, v) * p[2] >= p[1] * W
        /\ \A j \in 1..Len(a.data) :
               a.data[j] < v => WeightUpTo(a, a.data[j]) * p[2] < p[1] * W

\* C14: for every non-empty sample with valid weights and every p in [0,1]
\* the percentile returned is the smallest value whose cumulative weight
\* share is at least p; for [1,2,3,4,5] with equal weights and p = 0.5 it is 3.
PercentileIsLowerBound ==
    (InFunction("getPercentiles", "done") /\ args.data # << >>
        /\ Sum(EffectiveWeights(args)) > 0) =>
        /\ result.error = "none"
        /\ Len(result.values) = Len(args.percentiles)
        /\ \A j \in 1..Len(result.values) :
               IsLowerBoundPercentile(args, args.percentiles[j], result.values[j])
        /\ (args.data = ExampleSample.data /\ args.weights = ExampleSample.weights
               /\ args.percentiles = QuarterGrid) => result.values[3] = 3

\* The median of [1,2,3,4,5] with equal weights has been returned.
PercentileIsLowerBoundWitness ==
    /\ InFunction("getPercentiles", "done")
    /\ args.data = ExampleSample.data
    /\ args.weights = ExampleSample.weights
    /\ args.percentiles = QuarterGrid
    /\ result.values = <<1, 2, 3, 4, 5>>

(* ==================== subpopulation-average properties ================= *)
\* avg is the unweighted mean of data over the agents whose reference value
\* lies between the reference percentiles of the cutoff pair, both included.
IsBucketMean(avg, data, reference, cutoff) ==
    LET a == [data |-> reference, weights |-> << >>]
    IN  \E lo, hi \in {reference[j] : j \in 1..Len(reference)} :
            /\ IsLowerBoundPercentile(a, cutoff[1], lo)
            /\ IsLowerBoundPercentile(a, cutoff[2], hi)
            /\ LET members == {j \in 1..Len(reference) :
                                  lo <= reference[j] /\ reference[j] <= hi}
               IN  /\ members # {}
                   /\ RatEq(avg,
                            Rat(Sum([j \in 1..Len(data) |->
                                        IF j \in members THEN data[j] ELSE 0]),
                                Cardinality(members)))

\* C15: Avg_MPC buckets the agents by the grouping variable pLvl_all, not by
\* the target MPC_all: entry k is the unweighted mean of MPC_all over exactly
\* the agents whose pLvl_all lies between the pLvl_all percentiles of the k-th
\* cutoff pair, both bounds included.
AvgMPCByIncomeBucket ==
    (prog = "statsExperiment" /\ pc = "done" /\ result.error = "none") =>
        \A c \in 1..Len(QuintileCutoffs) :
            /\ c \in DOMAIN result.Avg_MPC
            /\ IsBucketMean(result.Avg_MPC[c], pooled.MPC_all, pooled.pLvl_all,
                            QuintileCutoffs[c])

\* Agents of two income levels: the bottom and the top quintile average
\* different agents.
AvgMPCByIncomeBucketWitness ==
    /\ prog = "statsExperiment"
    /\ pc = "done"
    /\ result.error = "none"
    /\ \E j, k \in 1..Len(pooled.pLvl_all) : pooled.pLvl_all[j] < pooled.pLvl_all[k]
    /\ Len(result.Avg_MPC) = 5
    /\ ~RatEq(result.Avg_MPC[1], result.Avg_MPC[5])

\* C16: with the target equal to the grouping variable and the single cutoff
\* pair (0.0, 1.0), the result is the unweighted mean of the full sample, for
\* every non-empty sample.
WholeSampleMean ==
    (InFunction("calcSubpopAvg", "done") /\ args.data # << >>
        /\ args.data = args.reference
        /\ args.cutoffs = << << <<0, 1>>, <<1, 1>> >> >>) =>
        /\ result.error = "none"
        /\ Len(result.avg) = 1
        /\ RatEq(result.avg[1], Mean(args.data))

\* The mean of a sample of three unequal values, negative one included.
WholeSampleMeanWitness ==
    /\ InFunction("calcSubpopAvg", "done")
    /\ args.data = <<2, -1, 1>>
    /\ args.reference = args.data
    /\ args.cutoffs = << << <<0, 1>>, <<1, 1>> >> >>
    /\ result.avg = << <<2, 3>> >>

\* C17: one average per cutoff pair, in the order the pairs were given: entry
\* k is the average of the k-th pair, and the five quintile pairs of Avg_MPC
\* give five entries.
OneAveragePerCutoff ==
    (InFunction("calcSubpopAvg", "done") /\ result.error = "none") =>
        /\ Len(result.avg) = Len(args.cutoffs)
        /\ args.cutoffs = QuintileCutoffs => Len(result.avg) = 5
        /\ \A c \in 1..Len(args.cutoffs) :
               IsBucketMean(result.avg[c], args.data, args.reference, args.cutoffs[c])

\* Two halves with different averages, returned lower half first.
OneAveragePerCutoffWitness ==
    /\ InFunction("calcSubpopAvg", "done")
    /\ result.error = "none"
    /\ args.reference = <<2, -1, 1>>
    /\ args.data = <<2, 1, 1>>
    /\ Len(args.cutoffs) = 2
    /\ result.avg = << <<1, 1>>, <<3, 2>> >>

\* Some cutoff pair of the call selects no agent.
SomeBucketEmpty(a) ==
    LET r == [data |-> a.reference, weights |-> << >>]
    IN  \E c \in 1..Len(a.cutoffs) :
            \E lo, hi \in {a.reference[j] : j \in 1..Len(a.reference)} :
                /\ IsLowerBoundPercentile(r, a.cutoffs[c][1], lo)
                /\ IsLowerBoundPercentile(r, a.cutoffs[c][2], hi)
                /\ \A j \in 1..Len(a.reference) :
                       ~(lo <= a.reference[j] /\ a.reference[j] <= hi)

\* C18: whenever some cutoff pair selects zero agents the call fails with
\* EmptyBucketError; no average that is not a number is ever returned.
EmptyBucketIsError ==
    (InFunction("calcSubpopAvg", "done") /\ args.reference # << >>) =>
        /\ SomeBucketEmpty(args) =>
               (result.error = "EmptyBucketError" /\ result.avg = << >>)
        /\ result.error = "none" =>
               \A c \in 1..Len(result.avg) : ~IsNaN(result.avg[c])

\* A cutoff pair from the 75th down to the 25th percentile of an unequal
\* sample has selected no agent.
EmptyBucketIsErrorWitness ==
    /\ InFunction("calcSubpopAvg", "done")
    /\ args.reference = <<2, -1, 1>>
    /\ Len(args.cutoffs) = 2
    /\ SomeBucketEmpty(args)
    /\ result.error = "EmptyBucketError"

(* ======================= discretizer properties ======================== *)
\* C19: for every N >= 1 and spread > 0 the discretizer returns exactly N
\* values, strictly increasing in bin index, strictly inside
\* (center - spread, center + spread), at the midpoints of N equal bins
\* (value_i = lower + (2i+1)/(2N) * (upper - lower), i = 0..N-1), each with
\* weight 1/N.  (The values are kept in units of 1/N.)
MidpointsOfEqualBins ==
    (InFunction("approx", "done") /\ args.N >= 1 /\ args.spread > 0) =>
        LET N == args.N
            lower == args.center - args.spread
            upper == args.center + args.spread
        IN  /\ result.error = "none"
            /\ Len(result.X) = N
            /\ Len(result.pmf) = N
            /\ \A k \in 1..N :
                   /\ N * lower < result.X[k] /\ result.X[k] < N * upper
                   /\ k < N => result.X[k] < result.X[k + 1]
                   /\ 2 * result.X[k] = 2 * N * lower + (2 * (k - 1) + 1) * (upper - lower)
                   /\ RatEq(result.pmf[k], <<1, N>>)

\* Three values around 0.9867 with spread 0.0067 have been returned.
MidpointsOfEqualBinsWitness ==
    /\ InFunction("approx", "done")
    /\ args = [center |-> 9867, spread |-> 67, N |-> 3]
    /\ result.error = "none"
    /\ result.X[1] < result.X[2] /\ result.X[2] < result.X[3]
    /\ result.X[2] = 3 * 9867

\* C20: the discretizer fails with InvalidDistributionError when N <= 0 or
\* spread < 0, and the experiment called with such a spread then builds no
\* type and invokes neither solve nor simulate.
InvalidDistributionStops ==
    /\ (InFunction("approx", "done") /\ (args.N <= 0 \/ args.spread < 0)) =>
           (result.error = "InvalidDistributionError" /\ result.X = << >>)
    /\ (prog = "experiment" /\ args.DiscFac_spread < 0 /\ pc \notin {"copy", "approx"}) =>
           /\ pc = "raised"
           /\ result.error = "InvalidDistributionError"
           /\ ThisType = NoType
           /\ type_list = << >>
           /\ pooled = NoPooled

\* The experiment has been called with a negative spread and has stopped at
\* the discretizer.
InvalidDistributionStopsWitness ==
    /\ prog = "experiment"
    /\ args.DiscFac_spread < 0
    /\ pc = "raised"
    /\ result.error = "InvalidDistributionError"

(* =============== templates, copies and solver failures ================= *)

\* C21: building the per-type configurations, and a complete run of the
\* experiment with its per-type T_sim and PrstIncCorr overrides, leave every
\* field of the template (BaselineDict, respectively BaselineType) as it was.
TemplateUnchanged ==
    /\ prog = "experiment" => BaselineDict = InitBaselineDict
    /\ prog = "impatient" => BaselineType = MakeBaselineType

\* A completed experiment whose types carry a PrstIncCorr, a DiscFac and a
\* T_sim different from the template's.
TemplateUnchangedWitness ==
    /\ prog = "experiment"
    /\ pc = "done"
    /\ Len(type_list) = NumTypes
    /\ args.CorrAct # InitBaselineDict.PrstIncCorr
    /\ \A k \in 1..NumTypes :
           /\ type_list[k].T_sim # InitBaselineDict.T_sim
           /\ type_list[k].DiscFac # InitBaselineDict.DiscFac

\* The configuration objects alive in a state, each with the list object its
\* LivPrb parameter is bound to.
Configurations ==
    { [id |-> c.id, LivPrb |-> c.LivPrb] :
        c \in {[id |-> BaselineDict.id, LivPrb |-> BaselineDict.LivPrb],
               [id |-> ThisDict.id, LivPrb |-> ThisDict.LivPrb],
               [id |-> BaselineType.id, LivPrb |-> BaselineType.LivPrb],
               [id |-> ThisType.id, LivPrb |-> ThisType.LivPrb]}
              \cup { [id |-> type_list[k].id, LivPrb |-> type_list[k].LivPrb] :
                        k \in 1..Len(type_list) }
              \cup { [id |-> NewTypes[k].id, LivPrb |-> NewTypes[k].LivPrb] :
                        k \in 1..Len(NewTypes) } } \ {[id |-> NoObject, LivPrb |-> ListOf(NoObject)]}

\* C22: no mutable field object is shared between two configurations: two
\* different configuration objects (template, dictionary of a type, type)
\* never have their list-valued parameter bound to the same list object.
NoSharedFieldObject ==
    \A a, b \in Configurations : a.id # b.id => a.LivPrb # b.LivPrb

Count(seq, x) == Cardinality({ j \in DOMAIN seq : seq[j] = x })

\* C23: in the experiment solve() is invoked at most once per type; when it
\* fails with NonConvergenceError the function ends there, with the error of
\* the first type that fails, the failed type never simulated and nothing
\* pooled; and a call in which some type fails never reaches the pooling.
SolveFailurePropagated ==
    prog = "experiment" =>
        /\ Count(ThisType.calls, "solve") <= 1
        /\ \A k \in 1..Len(type_list) : Count(type_list[k].calls, "solve") <= 1
        /\ result.error = "NonConvergenceError" =>
               /\ pc = "raised"
               /\ Len(type_list) = i - 1
               /\ ThisType.DiscFac = DiscFac_list[i]
               /\ ThisType.DiscFac \in nonconvergent
               /\ \A k \in 1..Len(type_list) : type_list[k].DiscFac \notin nonconvergent
               /\ ThisType.solution = << >>
               /\ Count(ThisType.calls, "simulate") = 0
               /\ pooled = NoPooled
        /\ (\E k \in 1..Len(DiscFac_list) : DiscFac_list[k] \in nonconvergent) =>
               pc \notin {"pool", "done"}

\* The solver has failed on the second type, a later type being unsolvable
\* as well.
SolveFailurePropagatedWitness ==
    /\ prog = "experiment"
    /\ pc = "raised"
    /\ result.error = "NonConvergenceError"
    /\ i = 2
    /\ Len(type_list) = 1
    /\ Cardinality(nonconvergent) >= 2

\* C24: after a solver failure for type k, the panels recorded for the types
\* before k are the ones their own cycles produced, and no panel is recorded
\* under the index of the failed type (experiment and baseline loop).
FailureLeavesOtherPanels ==
    (result.error = "NonConvergenceError" /\ NewTypes = << >>) =>
        /\ prog = "experiment" =>
               /\ Len(type_list) = i - 1
               /\ \A k \in 1..Len(type_list) :
                      /\ type_list[k].panel = SequentialType(k).panel
                      /\ type_list[k].DiscFac \notin nonconvergent
               /\ ThisType.panel = EmptyPanel
        /\ prog = "impatient" =>
               \A k \in 1..NumTypes :
                   type_list[k].panel =
                       IF k < i THEN SequentialBaselineType(k).panel ELSE EmptyPanel

\* The baseline loop has stopped at its second type, the first one simulated.
FailureLeavesOtherPanelsWitness ==
    /\ prog = "impatient"
    /\ pc = "raised"
    /\ result.error = "NonConvergenceError"
    /\ NewTypes = << >>
    /\ i = 2
    /\ Len(type_list[1].panel.aLvlNow) = AgentCount

(* ===================== order of the per-type steps ===================== *)
CycleOrder == <<"solve", "initializeSim", "simulate">>

\* The invocations on one object follow solve, initializeSim, simulate, in
\* that order, cycle after cycle.
InCycleOrder(calls) ==
    \A j \in 1..Len(calls) : calls[j] = CycleOrder[((j - 1) % 3) + 1]

Simulated(t) == t.calls # << >> /\ t.calls[Len(t.calls)] = "simulate"

\* C28: on every type the invocations occur in the order solve,
\* initializeSim, simulate, and the pooled arrays are read from types whose
\* simulate has completed.
SolveInitSimulateOrder ==
    /\ InCycleOrder(ThisType.calls)
    /\ \A k \in 1..Len(type_list) : InCycleOrder(type_list[k].calls)
    /\ \A k \in 1..Len(NewTypes) : InCycleOrder(NewTypes[k].calls)
    /\ (prog \in {"experiment", "impatient"} /\ pc = "done") =>
           /\ Len(type_list) = NumTypes
           /\ \A k \in 1..Len(type_list) : Simulated(type_list[k])
    /\ (prog = "impatient" /\ pc = "doneN") =>
           /\ Len(NewTypes) = NumTypes
           /\ \A k \in 1..Len(NewTypes) : Simulated(NewTypes[k])

\* The very impatient type has been solved and simulated and the MPCs of
\* NewTypes pooled.
SolveInitSimulateOrderWitness ==
    /\ prog = "impatient"
    /\ pc = "doneN"
    /\ Len(pooled.MPC_all) = NumTypes * AgentCount
    /\ Len(NewTypes[1].calls) >= 6

\* C29: overriding the discount factor of NewTypes[0] and solving and
\* simulating it leaves every type of MyTypes with its DiscFac, seed and
\* panel, and the copies 1..N-1 with the panels of their originals; only
\* the copy 0 differs.
VeryImpatientLeavesBaseline ==
    (prog = "impatient" /\ NewTypes # << >>) =>
        /\ \A k \in 1..NumTypes :
               /\ type_list[k].DiscFac = DiscFac_list[k]
               /\ type_list[k].seed = BuilderSeed(k - 1)
               /\ type_list[k].panel = SequentialBaselineType(k).panel
        /\ \A k \in 2..NumTypes : NewTypes[k].panel = type_list[k].panel
        /\ pc = "doneN" =>
               /\ NewTypes[1].DiscFac = VeryImpatientDiscFac * NumTypes
               /\ NewTypes[1].panel # type_list[1].panel

\* The very impatient copy has been re-solved and re-simulated.
VeryImpatientLeavesBaselineWitness ==
    /\ prog = "impatient"
    /\ pc = "doneN"
    /\ Len(NewTypes) = NumTypes
    /\ NewTypes[1].DiscFac # type_list[1].DiscFac
    /\ Len(NewTypes[1].panel.MPCnow) = AgentCount

\* C30: in the experiment, at each solve and each simulate the derived
\* next-period income function is the one of the current PrstIncCorr: the
\* policy is computed from the perceived value's function and the panel
\* from the actual value's.
DerivedFunctionCurrent ==
    prog = "experiment" =>
        /\ pc \in {"solve", "simulate"} => ThisType.pLvlNextFunc = ThisType.PrstIncCorr
        /\ (pc = "setAct" /\ result.error = "none") =>
               ThisType.solution[1].pLvlNextFunc = args.CorrPcvd
        /\ pc = "append" =>
               \A k \in 1..AgentCount :
                   ThisType.panel.aLvlNow[k].pLvlNextFunc = args.CorrAct

\* A type about to be simulated whose PrstIncCorr was assigned twice, with
\* values that differ from each other.
DerivedFunctionCurrentWitness ==
    /\ prog = "experiment"
    /\ pc = "simulate"
    /\ args.CorrPcvd # args.CorrAct
    /\ ThisType.solution # << >>
    /\ ThisType.PrstIncCorr = args.CorrAct

(* ========================= empty population ============================ *)
\* C25: pooling an empty type list fails with the empty-population error:
\* no pooled array and no statistic is produced; and the error arises in
\* no other case.
EmptyPopulationFails ==
    prog \in {"statsExperiment", "statsImpatient"} =>
        /\ (type_list = << >> /\ pc # "pool") =>
               /\ pc = "raised"
               /\ result = [NoResult EXCEPT !.error = EmptyPopulationError]
               /\ pooled = NoPooled
        /\ result.error = EmptyPopulationError => type_list = << >>

\* The pooling statement of the experiment has run on an empty type list.
EmptyPopulationFailsWitness ==
    /\ prog = "statsExperiment"
    /\ type_list = << >>
    /\ pc = "raised"
    /\ result.error = EmptyPopulationError

(* =========================== percentile grid =========================== *)
\* The steps between consecutive points of a grid.
Steps(grid) == { Rat(grid[j + 1][1] * grid[j][2] - grid[j][1] * grid[j + 1][2],
                     grid[j][2] * grid[j + 1][2]) : j \in 1..(Len(grid) - 1) }

\* C27: the final wealth_percentile array (0 and 1 stuck on) starts at 0, ends
\* at 1 and is evenly spaced: all consecutive points differ by the same step.
EvenBoundaryInclusiveGrid ==
    (prog = "statsExperiment" /\ pc = "done") =>
        /\ RatEq(result.wealth_percentile[1], <<0, 1>>)
        /\ RatEq(result.wealth_percentile[Len(result.wealth_percentile)], <<1, 1>>)
        /\ Cardinality(Steps(result.wealth_percentile)) = 1

(* ============================ getControls ============================== *)
\* C26: when every agent's t_cycle lies in 0..T_cycle-1, getControls leaves
\* cLvlNow and MPCnow of length AgentCount with no entry unset: each entry was
\* assigned exactly once, from the solution of the agent's own period at the
\* agent's own mLvlNow and pLvlNow.
ControlsComplete ==
    (prog = "getControls" /\ pc = "done"
       /\ \A j \in 1..ThisType.AgentCount : ThisType.t_cycle[j] \in 0..(ThisType.T_cycle - 1)) =>
        /\ Len(ThisType.cLvlNow) = ThisType.AgentCount
        /\ Len(ThisType.MPCnow) = ThisType.AgentCount
        /\ \A j \in 1..ThisType.AgentCount :
               /\ ThisType.cLvlNow[j] # NotANumber
               /\ ThisType.MPCnow[j] # NotANumber
               /\ result.writes[j] = 1
               /\ ThisType.cLvlNow[j] =
                      CFunc(ThisType.t_cycle[j], ThisType.mLvlNow[j], ThisType.pLvlNow[j])
               /\ ThisType.MPCnow[j] =
                      CFuncDerivativeX(ThisType.t_cycle[j], ThisType.mLvlNow[j],
                                       ThisType.pLvlNow[j])

\* getControls has completed on agents that are in different periods of a
\* cycle and hold different resources.
ControlsCompleteWitness ==
    /\ prog = "getControls"
    /\ pc = "done"
    /\ ThisType.T_cycle >= 2
    /\ \A j \in 1..ThisType.AgentCount : ThisType.t_cycle[j] \in 0..(ThisType.T_cycle - 1)
    /\ ThisType.t_cycle[1] < ThisType.t_cycle[2]
    /\ ThisType.mLvlNow[1] # ThisType.mLvlNow[2]
    /\ Len(ThisType.cLvlNow) = ThisType.AgentCount
====
